---- MODULE Spec2Model ----
(***************************************************************************)
(* Performance state machine of the ANTHROPOLOGY stage player.             *)
(*                                                                         *)
(* Spec models the scene-aware manager (usePerformanceManager with the     *)
(* options object), the PerformanceView that hosts it, the audio player    *)
(* hook and the App navigation callbacks.  React is modelled at the        *)
(* granularity of one commit per step: an event handler writes hook        *)
(* state, and the action Render performs one render pass, running the      *)
(* effect cleanups and effect bodies whose dependencies changed since the  *)
(* previous render.  Handlers that read refs or closures read the values   *)
(* of the last render (the variable rendered).                             *)
(*                                                                         *)
(* SpecK models the counter-based manager, which reports completed         *)
(* computer lines through onComputerLineComplete, with its view and the    *)
(* App that passes advanceLine as that callback.  SpecM models the         *)
(* manual-navigation manager (borderEffect, jumpToScene), its view and     *)
(* the App whose key handler reads stateRef.  SpecNav applies the          *)
(* navigation callbacks advanceLine and regressLine on their own, to       *)
(* every short script and every cursor position, SpecOrd does the same     *)
(* for the angieDialogueIndex memos, and SpecAudio runs the audio player   *)
(* hook alone against every Audio element it has constructed.              *)
(*                                                                         *)
(* SpecH models the cursor-owning manager (hooks/usePerformanceManager),   *)
(* which keeps currentLineIndex itself.  SpecEnd is SpecM with the 'ended' *)
(* event of a SPECIFIC clip delivered to the view's handler by the         *)
(* environment, SpecFair is Spec with renders never postponed for ever,    *)
(* and SpecSpeech runs the speech recognition hook alone against the       *)
(* events of the browser's recogniser and its own timers.                  *)
(***************************************************************************)
EXTENDS Integers, Sequences, FiniteSets, TLC

\* ------------------------------------------------------------------ bounds
MaxLen == 3          \* longest script explored
NumAudio == 1        \* number of dialogue audio files loaded
NavLen == 4          \* longest script the navigation callbacks are applied to
OrdLen == 4          \* longest script the ordinal is computed on
MaxCalls == 2        \* repeated calls of one navigation callback that are counted
MaxPlays == 3        \* Audio elements the audio player constructs
MaxCount == 4        \* largest running counter of the cursor-owning manager
MaxRetry == 2        \* largest retryCountRef of the speech recognition hook
MaxTimers == 2       \* most 100 ms restart timers pending at once

\* --------------------------------------------------------------- constants
COMPUTER_CHARACTER == "ANGIE"
ShortParentheticalLimit == 25

NoLine == -1         \* displayedAngieLine = null
StaleLine == NoLine - 1   \* displayedAngieLine = a line object of a replaced script
Undefined == -1      \* an optional number that is absent
NoUrl == "null"

\* ------------------------------------------------------------ script lines
DialogueLine(c, t) ==
  [type |-> "DIALOGUE", character |-> c, text |-> t,
   cue |-> "NONE", videoFilename |-> NoUrl, audioIndex |-> Undefined]
CueLine(k, f) ==
  [type |-> "CUE", character |-> "NONE", text |-> <<>>,
   cue |-> k, videoFilename |-> f, audioIndex |-> Undefined]
SceneMarkerLine ==
  [type |-> "SCENE_MARKER", character |-> "NONE", text |-> <<>>,
   cue |-> "NONE", videoFilename |-> NoUrl, audioIndex |-> Undefined]

TextHi == <<"H", "i">>
TextPause == <<"(", "p", ")">>

\* The line kinds scripts are built from.
LinePool ==
  { SceneMarkerLine,
    DialogueLine(COMPUTER_CHARACTER, TextHi),
    DialogueLine(COMPUTER_CHARACTER, TextPause),
    DialogueLine("USER", TextHi),
    CueLine("CUT_TO_LIVE_CAMERA", NoUrl),
    CueLine("END_LIVE_FEED", NoUrl),
    CueLine("CUT_TO_TEXT", NoUrl),
    CueLine("CUT_TO_PRERECORDED", NoUrl),
    CueLine("PLAY_SPECIFIC_VIDEO", "intro.mp4"),
    CueLine("PLAY_SPECIFIC_VIDEO", "nope.mp4"),
    CueLine("UNKNOWN", NoUrl) }

SeqsUpTo(S, n) == UNION { [1..k -> S] : k \in 0..n }
Scripts == SeqsUpTo(LinePool, MaxLen)

\* The script files picked in the menu while the application runs.
NewScripts ==
  { <<>>,
    << DialogueLine(COMPUTER_CHARACTER, TextHi) >>,
    << SceneMarkerLine, DialogueLine(COMPUTER_CHARACTER, TextHi) >> }

\* Loaded assets: file names in load order; the url of a file is its name.
videos == <<"idle.mp4", "Intro.mp4">>
audioFiles == [i \in 1..NumAudio |-> "audio"]

ToLowerCase(name) ==
  CASE name = "Intro.mp4" -> "intro.mp4"
    [] OTHER -> name

\* ------------------------------------------------------------ text helpers
IsSpace(ch) == ch = " "

RECURSIVE TrimLeft(_)
TrimLeft(t) ==
  IF t # <<>> /\ IsSpace(Head(t)) THEN TrimLeft(Tail(t)) ELSE t

RECURSIVE TrimRight(_)
TrimRight(t) ==
  IF t # <<>> /\ IsSpace(t[Len(t)]) THEN TrimRight(SubSeq(t, 1, Len(t) - 1)) ELSE t

Trim(t) == TrimRight(TrimLeft(t))

isShortParenthetical(trimmedText) ==
  /\ Len(trimmedText) >= 1
  /\ trimmedText[1] = "("
  /\ trimmedText[Len(trimmedText)] = ")"
  /\ Len(trimmedText) < ShortParentheticalLimit

\* line.text is empty after trimming or is a short parenthetical
IsTrivialText(t) == Trim(t) = <<>> \/ isShortParenthetical(Trim(t))

IsComputerLine(line) ==
  line.type = "DIALOGUE" /\ line.character = COMPUTER_CHARACTER

\* ------------------------------------------------------------------- state
VARIABLES
  appStatus,            \* App: AppStatus
  script,               \* App: parsed script
  scenes,               \* App: scene markers of the script, [name, index]
  currentLineIndex,     \* App: the cursor (0-based)
  viewMode,             \* manager: ViewMode
  videoState,           \* manager: [state, dialogueIndex, specificVideoUrl]
  displayedAngieLine,   \* manager: position of the displayed line, or NoLine
  isTyping,             \* manager
  isLiveFeedActive,     \* manager
  isAutoAdvancing,      \* manager
  shouldAdvance,        \* manager
  audioRef,             \* audio player: the Audio element, [st, idx, onEnd]
  isPlaying,            \* audio player
  mounted,              \* PerformanceView has rendered at least once
  rendered,             \* hook state as of the last render
  hasCleanup,           \* the last run of the line effect returned a cleanup
  typing,               \* TextView: [inst, active]
  videoEl,              \* PrerecordedVideoView: the video element
  advCount,             \* advance requests issued since the line effect last ran for a new line
  ordinalUsed,          \* [line, ordinal]: the last asset lookup since the last jump
  audioLine,            \* cursor position whose reaction started the audio
  jumpLog,              \* [perf, audio]: a scene was selected while performing; the
                        \* audio player calls seen since a jump made over live audio
  angieLineCounterRef,  \* counter-based manager: the running count of computer lines
  completeLog,          \* counter-based manager: the calls of onComputerLineComplete
  borderEffect,         \* manual-navigation manager: 'NORMAL' | 'RED' | 'FLASHING'
  navLog,               \* navigation calls: [op, from, calls], the last call made
  audioEls,             \* audio player alone: [all, current], every Audio element
                        \* constructed by play() and the one audioRef.current holds
  wasComputerSpeakingRef, \* cursor-owning manager: isComputerSpeaking at the last effect run
  recognition,          \* speech recognition hook alone: its refs, timers and engine
  endLog                \* manual-navigation manager: the callers of onSpecificVideoEnd
                        \* ('ended', 'key'), in order, since the last render of a new line

vars ==
  << appStatus, script, scenes, currentLineIndex, viewMode, videoState,
     displayedAngieLine, isTyping, isLiveFeedActive, isAutoAdvancing,
     shouldAdvance, audioRef, isPlaying, mounted, rendered, hasCleanup,
     typing, videoEl, advCount, ordinalUsed, audioLine, jumpLog,
     angieLineCounterRef, completeLog, borderEffect, navLog, audioEls, wasComputerSpeakingRef, recognition, endLog >>

\* state of the other managers, untouched by the scene-aware one
otherVars == << angieLineCounterRef, completeLog, borderEffect, navLog, audioEls, wasComputerSpeakingRef, recognition, endLog >>

NoAudio == [st |-> "none", idx |-> -1, onEnd |-> "none"]
NoVideo == [src |-> NoUrl, ended |-> FALSE, loop |-> FALSE, present |-> FALSE]
NoInst == << "NONE", NoLine >>
IdleVideoState == [state |-> "IDLE", dialogueIndex |-> -1, specificVideoUrl |-> NoUrl]
NoLookup == [line |-> NoLine, ordinal |-> -1]
NoNav == [op |-> "none", from |-> 0, calls |-> 0]
NoElements == [all |-> <<>>, current |-> 0]
\* engine: the browser's recogniser, 'idle' | 'starting' (start() taken, its
\* start event not yet delivered) | 'running' | 'stopping' (stop() taken, its
\* end event not yet delivered) | 'stoppingEarly' (stop() taken before the
\* start event was delivered) | 'failing' (an error event delivered, the end
\* event not yet); retryTimeoutRef: a retry timer is armed; restartTimers:
\* the pending 100 ms timers of onend; userCall: the last call of the host
NoRecognition ==
  [engine |-> "idle", isListening |-> FALSE, stoppedManually |-> FALSE,
   retryTimeoutRef |-> FALSE, retryCountRef |-> 0, restartTimers |-> 0,
   userCall |-> "none"]
NoCompleteLog ==
  [line |-> NoLine, count |-> 0, stale |-> FALSE,
   displayedBy |-> NoLine, videoBy |-> NoLine]

HasLine(s, i) == i >= 0 /\ i < Len(s)
LineAt(s, i) == s[i + 1]

\* ------------------------------------------------------------- navigation
\* handleScriptLoad: scene markers with their positions, in script order
RECURSIVE SceneMarkersFrom(_, _)
SceneMarkersFrom(s, i) ==
  IF i >= Len(s) THEN <<>>
  ELSE IF LineAt(s, i).type = "SCENE_MARKER"
       THEN << [name |-> "SCENE", index |-> i] >> \o SceneMarkersFrom(s, i + 1)
       ELSE SceneMarkersFrom(s, i + 1)

SceneMarkersOf(s) == SceneMarkersFrom(s, 0)

IsActionable(line) == line.type = "DIALOGUE" \/ line.type = "CUE"

\* variation: the cursor is incremented without looking at the script
advanceUnchecked(s, prev) == prev + 1

\* variation: past the last line the cursor starts over at the first
advanceWrapping(s, prev) == IF prev + 1 < Len(s) THEN prev + 1 ELSE 0

\* variation: the cursor is decremented without looking at the script
regressUnchecked(s, prev) == prev - 1

\* advanceLine: the while loop from prev + 1
RECURSIVE AdvanceScan(_, _, _)
AdvanceScan(s, i, prev) ==
  IF i < Len(s)
  THEN IF IsActionable(LineAt(s, i)) THEN i ELSE AdvanceScan(s, i + 1, prev)
  ELSE prev

advanceLine(s, prev) == AdvanceScan(s, prev + 1, prev)

\* variation: going back returns to the first line of the script
regressToFirst(s, prev) == 0

\* regressLine: the while loop from prev - 1
RECURSIVE RegressScan(_, _, _)
RegressScan(s, i, prev) ==
  IF i >= 0
  THEN IF HasLine(s, i) /\ IsActionable(LineAt(s, i)) THEN i ELSE RegressScan(s, i - 1, prev)
  ELSE prev

regressLine(s, prev) == RegressScan(s, prev - 1, prev)

\* ----------------------------------------------------------- asset lookup
\* scenes.slice().reverse().find(s => s.index <= currentLineIndex)
RECURSIVE FindSceneFromEnd(_, _, _)
FindSceneFromEnd(sc, k, cur) ==
  IF k < 1 THEN -1
  ELSE IF sc[k].index <= cur THEN sc[k].index ELSE FindSceneFromEnd(sc, k - 1, cur)

\* variation: the count starts at the top of the script
scriptStartIndex(sc, cur) == 0

sceneStartIndex(sc, cur) ==
  LET found == FindSceneFromEnd(sc, Len(sc), cur)
  IN IF found >= 0 THEN found ELSE 0

\* variation: every computer line is counted, whatever its text
CountsEveryComputerLine(line) == IsComputerLine(line)

IsCountable(line) == IsComputerLine(line) /\ ~IsTrivialText(line.text)

\* the counting loop of angieDialogueIndex
RECURSIVE CountLoop(_, _, _, _)
CountLoop(s, i, cur, count) ==
  IF i > cur THEN count
  ELSE IF HasLine(s, i) /\ IsCountable(LineAt(s, i))
       THEN CountLoop(s, i + 1, cur, count + 1)
       ELSE CountLoop(s, i + 1, cur, count)

angieDialogueIndex(s, sc, cur) ==
  CountLoop(s, sceneStartIndex(sc, cur), cur, -1)

IsIdleName(name) == ToLowerCase(name) = "idle.mp4"

dialogueVideos == SelectSeq(videos, LAMBDA v : ~IsIdleName(v))

\* videos.find(v => v.file.name.toLowerCase().startsWith('idle'))?.url || null
RECURSIVE FindIdle(_, _)
FindIdle(vs, k) ==
  IF k > Len(vs) THEN NoUrl
  ELSE IF IsIdleName(vs[k]) THEN vs[k] ELSE FindIdle(vs, k + 1)

idleVideoUrl == FindIdle(videos, 1)

\* videos.find(v => v.file.name.toLowerCase() === line.videoFilename?.toLowerCase())
RECURSIVE FindByName(_, _, _)
FindByName(vs, k, filename) ==
  IF k > Len(vs) THEN NoUrl
  ELSE IF ToLowerCase(vs[k]) = ToLowerCase(filename) THEN vs[k]
       ELSE FindByName(vs, k + 1, filename)

findSpecificVideo(filename) == FindByName(videos, 1, filename)

HasAudio(i) == i >= 0 /\ i < Len(audioFiles)
HasDialogueVideo(i) == i >= 0 /\ i < Len(dialogueVideos)

\* ------------------------------------------------------------ audio player
\* useAudioPlayer.cancel
cancelAudio(w) ==
  LET logged == [w EXCEPT !.jumpAudio = IF @ = "awaiting" THEN "cancelled" ELSE @]
  IN IF w.audioRef.st # "none"
     THEN [logged EXCEPT !.audioRef = NoAudio, !.isPlaying = FALSE]
     ELSE logged

\* useAudioPlayer.play: the previous element is paused, a new one is created
playAudio(w, idx, line, onEnd) ==
  [w EXCEPT !.audioRef = [st |-> "loading", idx |-> idx, onEnd |-> onEnd],
            !.isPlaying = IF w.audioRef.st # "none" THEN FALSE ELSE w.isPlaying,
            !.audioLine = line,
            !.jumpAudio = IF @ = "awaiting" THEN "played_first" ELSE @]

\* ------------------------------------------- the manager's derived values
isSpecificVideoPlaying(S) == S.videoState.state = "SPECIFIC"
isAngiesDialoguePlaying(S) ==
  S.viewMode = "PRERECORDED" /\ S.videoState.state = "DIALOGUE"
isComputerSpeaking(S) ==
  S.isTyping \/ S.isPlaying \/ isAngiesDialoguePlaying(S) \/ isSpecificVideoPlaying(S)

\* the hook state a render sees
Current ==
  [cursor |-> currentLineIndex, viewMode |-> viewMode, videoState |-> videoState,
   displayedAngieLine |-> displayedAngieLine, isTyping |-> isTyping,
   isPlaying |-> isPlaying, isLiveFeedActive |-> isLiveFeedActive,
   isAutoAdvancing |-> isAutoAdvancing, shouldAdvance |-> shouldAdvance,
   script |-> script]

\* what the effects of one render may write
World ==
  [cursor |-> currentLineIndex, viewMode |-> viewMode, videoState |-> videoState,
   displayedAngieLine |-> displayedAngieLine, isTyping |-> isTyping,
   isPlaying |-> isPlaying, isLiveFeedActive |-> isLiveFeedActive,
   isAutoAdvancing |-> isAutoAdvancing, shouldAdvance |-> shouldAdvance,
   audioRef |-> audioRef, hasCleanup |-> hasCleanup, advCount |-> advCount,
   ordinalUsed |-> ordinalUsed, audioLine |-> audioLine, jumpAudio |-> jumpLog.audio]

\* variation: skipped lines request no advance
AutoSkipSilently(line, w) ==
  IF line.type = "CUE" /\ line.cue = "END_LIVE_FEED"
  THEN [w EXCEPT !.isLiveFeedActive = FALSE, !.displayedAngieLine = NoLine,
                 !.viewMode = "TEXT", !.isAutoAdvancing = FALSE]
  ELSE w

\* variation: spoken computer lines are still displayed during the skip
AutoSkipShowingLines(line, w) ==
  IF line.type = "CUE" /\ line.cue = "END_LIVE_FEED"
  THEN [w EXCEPT !.isLiveFeedActive = FALSE, !.displayedAngieLine = NoLine,
                 !.viewMode = "TEXT", !.isAutoAdvancing = FALSE]
  ELSE IF IsComputerLine(line) /\ ~IsTrivialText(line.text)
  THEN [w EXCEPT !.isTyping = TRUE, !.displayedAngieLine = w.cursor]
  ELSE [w EXCEPT !.shouldAdvance = TRUE]

\* variation: END_LIVE_FEED ends the skip but leaves the live feed marked active
AutoSkipKeepingFeed(line, w) ==
  IF line.type = "CUE" /\ line.cue = "END_LIVE_FEED"
  THEN [w EXCEPT !.displayedAngieLine = NoLine,
                 !.viewMode = "TEXT", !.isAutoAdvancing = FALSE]
  ELSE [w EXCEPT !.shouldAdvance = TRUE]

\* -------------------------------------------------- the line effect (body)
\* High-priority auto-skip for live feed
AutoSkipBranch(line, w) ==
  IF line.type = "CUE" /\ line.cue = "END_LIVE_FEED"
  THEN [w EXCEPT !.isLiveFeedActive = FALSE, !.displayedAngieLine = NoLine,
                 !.viewMode = "TEXT", !.isAutoAdvancing = FALSE]
  ELSE [w EXCEPT !.shouldAdvance = TRUE]

\* case DIALOGUE, character = COMPUTER_CHARACTER
ComputerDialogueBranch(S, line, w) ==
  LET idx == angieDialogueIndex(script, scenes, S.cursor)
  IN IF IsTrivialText(line.text)
     THEN [w EXCEPT !.displayedAngieLine = NoLine, !.shouldAdvance = TRUE]
     ELSE IF S.viewMode = "PRERECORDED"
     THEN [w EXCEPT !.displayedAngieLine = NoLine,
                    !.ordinalUsed = [line |-> S.cursor, ordinal |-> idx],
                    !.videoState =
                       [state |-> IF HasDialogueVideo(idx) THEN "DIALOGUE" ELSE "MISSING",
                        dialogueIndex |-> idx, specificVideoUrl |-> NoUrl]]
     ELSE LET w1 == [w EXCEPT !.isTyping = TRUE, !.displayedAngieLine = S.cursor,
                              !.ordinalUsed = [line |-> S.cursor, ordinal |-> idx]]
          IN IF HasAudio(idx) THEN playAudio(w1, idx, S.cursor, "setIsTyping(false)") ELSE w1

\* variation: a line of another character leaves the manager as it was
UserDialogueUntouched(w) == w

\* case DIALOGUE, any other character
UserDialogueBranch(w) ==
  [cancelAudio(w) EXCEPT !.displayedAngieLine = NoLine]

\* case CUE
CueBranch(line, w) ==
  LET w1 == [w EXCEPT !.displayedAngieLine = NoLine]
  IN CASE line.cue = "CUT_TO_LIVE_CAMERA" ->
            [w1 EXCEPT !.viewMode = "LIVE_VIDEO", !.isLiveFeedActive = TRUE,
                       !.isAutoAdvancing = TRUE, !.shouldAdvance = TRUE]
       [] line.cue = "CUT_TO_TEXT" ->
            [w1 EXCEPT !.viewMode = "TEXT", !.shouldAdvance = TRUE]
       [] line.cue = "CUT_TO_PRERECORDED" ->
            [w1 EXCEPT !.viewMode = "PRERECORDED", !.shouldAdvance = TRUE]
       [] line.cue = "PLAY_SPECIFIC_VIDEO" ->
            LET url == findSpecificVideo(line.videoFilename)
            IN IF url # NoUrl
               THEN [w1 EXCEPT !.viewMode = "PRERECORDED",
                               !.videoState = [state |-> "SPECIFIC", dialogueIndex |-> -1,
                                               specificVideoUrl |-> url]]
               ELSE [w1 EXCEPT !.viewMode = "PRERECORDED",
                               !.videoState = [state |-> "MISSING", dialogueIndex |-> -1,
                                               specificVideoUrl |-> NoUrl]]
       [] OTHER -> [w1 EXCEPT !.shouldAdvance = TRUE]

\* case SCENE_MARKER
SceneMarkerBranch(w) ==
  [w EXCEPT !.displayedAngieLine = NoLine, !.shouldAdvance = TRUE]

\* the body of the effect on [currentLineIndex, ..., viewMode, ..., isAutoAdvancing]
LineEffect(S, w) ==
  IF ~HasLine(script, S.cursor)
  THEN [w EXCEPT !.hasCleanup = FALSE]
  ELSE LET line == LineAt(script, S.cursor)
       IN IF S.isAutoAdvancing
          THEN [AutoSkipBranch(line, w) EXCEPT !.hasCleanup = FALSE]
          ELSE LET w1 == [w EXCEPT !.isTyping = FALSE]
                   w2 == CASE line.type = "DIALOGUE" /\ IsComputerLine(line) ->
                                 ComputerDialogueBranch(S, line, w1)
                            [] line.type = "DIALOGUE" /\ ~IsComputerLine(line) ->
                                 UserDialogueBranch(w1)
                            [] line.type = "CUE" -> CueBranch(line, w1)
                            [] OTHER -> SceneMarkerBranch(w1)
               IN [w2 EXCEPT !.hasCleanup = TRUE]

\* variation: the line effect returns no cleanup
KeepAudioOnExit(w) == w

\* the cleanup returned by the line effect
LineEffectCleanup(w) == IF w.hasCleanup THEN cancelAudio(w) ELSE w

\* variation: the request is served but never cleared
AdvanceKeepingRequest(S, w) ==
  IF S.shouldAdvance
  THEN [w EXCEPT !.cursor = advanceLine(script, w.cursor),
                 !.advCount = w.advCount + 1]
  ELSE w

\* the effect on [shouldAdvance]
ShouldAdvanceEffect(S, w) ==
  IF S.shouldAdvance
  THEN [w EXCEPT !.cursor = advanceLine(script, w.cursor),
                 !.advCount = w.advCount + 1,
                 !.shouldAdvance = FALSE]
  ELSE w

\* ------------------------------------------------------ PerformanceView
\* which TextView instance a render shows: the TEXT branch and the
\* LIVE_VIDEO overlay are different elements, each keyed by its angieLine
TextViewInst(S) ==
  IF S.displayedAngieLine # NoLine /\ S.viewMode \in {"TEXT", "LIVE_VIDEO"}
  THEN << S.viewMode, S.displayedAngieLine >>
  ELSE NoInst

\* TextView effect on [angieLine]: clear the interval, start typing afresh
TextViewCommit(S) ==
  IF TextViewInst(S) = typing.inst
  THEN typing
  ELSE [inst |-> TextViewInst(S), active |-> TextViewInst(S) # NoInst]

\* PrerecordedVideoView: the source the switch over videoState.state selects
currentSrc(S) ==
  CASE S.videoState.state = "IDLE" -> idleVideoUrl
    [] S.videoState.state = "DIALOGUE" /\ HasDialogueVideo(S.videoState.dialogueIndex) ->
         dialogueVideos[S.videoState.dialogueIndex + 1]
    [] S.videoState.state = "SPECIFIC" -> S.videoState.specificVideoUrl
    [] OTHER -> NoUrl

isMissing(S) ==
  \/ S.videoState.state = "MISSING"
  \/ S.videoState.state = "DIALOGUE" /\ ~HasDialogueVideo(S.videoState.dialogueIndex)

isLooping(S) == S.videoState.state = "IDLE"

\* PrerecordedVideoView effect on [currentSrc, isLooping]
VideoViewCommit(S) ==
  IF S.viewMode # "PRERECORDED" \/ isMissing(S)
  THEN NoVideo
  ELSE LET el == [videoEl EXCEPT !.present = TRUE]
       IN IF currentSrc(S) # NoUrl /\ el.src # currentSrc(S)
          THEN [el EXCEPT !.src = currentSrc(S), !.ended = FALSE, !.loop = isLooping(S)]
          ELSE [el EXCEPT !.loop = isLooping(S)]

Commit(w) ==
  /\ currentLineIndex' = w.cursor
  /\ viewMode' = w.viewMode
  /\ videoState' = w.videoState
  /\ displayedAngieLine' = w.displayedAngieLine
  /\ isTyping' = w.isTyping
  /\ isPlaying' = w.isPlaying
  /\ isLiveFeedActive' = w.isLiveFeedActive
  /\ isAutoAdvancing' = w.isAutoAdvancing
  /\ shouldAdvance' = w.shouldAdvance
  /\ audioRef' = w.audioRef
  /\ hasCleanup' = w.hasCleanup
  /\ advCount' = w.advCount
  /\ ordinalUsed' = w.ordinalUsed
  /\ audioLine' = w.audioLine
  /\ jumpLog' = [jumpLog EXCEPT !.audio = w.jumpAudio]

\* -------------------------------------------------------------- one render
LineEffectDepsChanged(S) ==
  \/ ~mounted
  \/ S.cursor # rendered.cursor
  \/ S.script # rendered.script
  \/ S.viewMode # rendered.viewMode
  \/ S.isAutoAdvancing # rendered.isAutoAdvancing

Render ==
  /\ appStatus = "PERFORMING"
  /\ ~mounted \/ Current # rendered
  /\ LET S == Current
         newLine == ~mounted \/ S.cursor # rendered.cursor \/ S.script # rendered.script
         w0 == [World EXCEPT !.advCount = IF newLine THEN 0 ELSE @]
         w1 == IF LineEffectDepsChanged(S) THEN LineEffect(S, LineEffectCleanup(w0)) ELSE w0
         w2 == IF ~mounted \/ S.shouldAdvance # rendered.shouldAdvance
               THEN ShouldAdvanceEffect(S, w1) ELSE w1
     IN /\ Commit(w2)
        /\ rendered' = S
        /\ mounted' = TRUE
        /\ typing' = TextViewCommit(S)
        /\ videoEl' = VideoViewCommit(S)
  /\ UNCHANGED << appStatus, script, scenes >>
  /\ UNCHANGED otherVars

\* ------------------------------------------------------ completion signals
\* TextView interval reaches the end of the text: onTypingComplete
TypingComplete ==
  /\ typing.active
  /\ typing' = [typing EXCEPT !.active = FALSE]
  /\ isTyping' = FALSE
  /\ UNCHANGED << appStatus, script, scenes, currentLineIndex, viewMode, videoState,
                  displayedAngieLine, isLiveFeedActive, isAutoAdvancing, shouldAdvance,
                  audioRef, isPlaying, mounted, rendered, hasCleanup, videoEl,
                  advCount, ordinalUsed, audioLine, jumpLog >>
  /\ UNCHANGED otherVars

\* newAudio.onplay
AudioOnPlay ==
  /\ audioRef.st = "loading"
  /\ audioRef' = [audioRef EXCEPT !.st = "playing"]
  /\ isPlaying' = TRUE
  /\ UNCHANGED << appStatus, script, scenes, currentLineIndex, viewMode, videoState,
                  displayedAngieLine, isTyping, isLiveFeedActive, isAutoAdvancing,
                  shouldAdvance, mounted, rendered, hasCleanup, typing, videoEl,
                  advCount, ordinalUsed, audioLine, jumpLog >>
  /\ UNCHANGED otherVars

\* newAudio.onended, with the onEnd passed by the line effect
AudioOnEnded ==
  /\ audioRef.st = "playing"
  /\ audioRef' = [audioRef EXCEPT !.st = "ended"]
  /\ isPlaying' = FALSE
  /\ isTyping' = IF audioRef.onEnd = "setIsTyping(false)" THEN FALSE ELSE isTyping
  /\ UNCHANGED << appStatus, script, scenes, currentLineIndex, viewMode, videoState,
                  displayedAngieLine, isLiveFeedActive, isAutoAdvancing,
                  shouldAdvance, mounted, rendered, hasCleanup, typing, videoEl,
                  advCount, ordinalUsed, audioLine, jumpLog >>
  /\ UNCHANGED otherVars

\* newAudio.onerror and the rejection of newAudio.play()
AudioOnError ==
  /\ audioRef.st \in {"loading", "playing"}
  /\ audioRef' = [audioRef EXCEPT !.st = "failed"]
  /\ isPlaying' = FALSE
  /\ UNCHANGED << appStatus, script, scenes, currentLineIndex, viewMode, videoState,
                  displayedAngieLine, isTyping, isLiveFeedActive, isAutoAdvancing,
                  shouldAdvance, mounted, rendered, hasCleanup, typing, videoEl,
                  advCount, ordinalUsed, audioLine, jumpLog >>
  /\ UNCHANGED otherVars

\* onDialogueVideoEnd
onDialogueVideoEnd == IdleVideoState

\* the video element fires 'ended': handleVideoEnd of the last render
VideoEnded ==
  /\ videoEl.present /\ videoEl.src # NoUrl /\ ~videoEl.ended /\ ~videoEl.loop
  /\ videoEl' = [videoEl EXCEPT !.ended = TRUE]
  /\ videoState' = IF rendered.videoState.state = "DIALOGUE"
                   THEN onDialogueVideoEnd ELSE videoState
  /\ UNCHANGED << appStatus, script, scenes, currentLineIndex, viewMode,
                  displayedAngieLine, isTyping, isLiveFeedActive, isAutoAdvancing,
                  shouldAdvance, audioRef, isPlaying, mounted, rendered, hasCleanup,
                  typing, advCount, ordinalUsed, audioLine, jumpLog >>
  /\ UNCHANGED otherVars

\* --------------------------------------------------------------- user input
\* the view has rendered the current hook state and no render is pending
InputReady == appStatus = "PERFORMING" /\ mounted /\ Current = rendered

isSkippableVideo(S) == S.videoState.state \in {"SPECIFIC", "MISSING"}

\* the shared body of handleKeyDown (ArrowRight/Space) and handleContainerClick,
\* reading masterRef, applied to cursor c
SkipOrAdvance(c) ==
  IF rendered.isAutoAdvancing
  THEN /\ currentLineIndex' = c
       /\ videoState' = videoState
  ELSE IF isSkippableVideo(rendered)
  THEN /\ currentLineIndex' = c
       /\ videoState' = onDialogueVideoEnd
  ELSE IF ~isComputerSpeaking(rendered)
  THEN /\ currentLineIndex' = advanceLine(script, c)
       /\ videoState' = videoState
  ELSE /\ currentLineIndex' = c
       /\ videoState' = videoState

\* PerformanceView.handleKeyDown
handleKeyDown ==
  /\ InputReady
  /\ \E code \in {"ArrowRight", "Space", "ArrowLeft"} :
        IF code = "ArrowLeft"
        THEN /\ currentLineIndex' =
                  IF ~rendered.isAutoAdvancing /\ ~isComputerSpeaking(rendered)
                  THEN regressLine(script, currentLineIndex)
                  ELSE currentLineIndex
             /\ videoState' = videoState
        ELSE SkipOrAdvance(currentLineIndex)
  /\ UNCHANGED << appStatus, script, scenes, viewMode, displayedAngieLine, isTyping,
                  isLiveFeedActive, isAutoAdvancing, shouldAdvance, audioRef, isPlaying,
                  mounted, rendered, hasCleanup, typing, videoEl, advCount,
                  ordinalUsed, audioLine, jumpLog >>
  /\ UNCHANGED otherVars

\* PerformanceView.handleContainerClick, click outside the video surface
handleContainerClick ==
  /\ InputReady
  /\ SkipOrAdvance(currentLineIndex)
  /\ UNCHANGED << appStatus, script, scenes, viewMode, displayedAngieLine, isTyping,
                  isLiveFeedActive, isAutoAdvancing, shouldAdvance, audioRef, isPlaying,
                  mounted, rendered, hasCleanup, typing, videoEl, advCount,
                  ordinalUsed, audioLine, jumpLog >>
  /\ UNCHANGED otherVars

\* click on the video element or the missing-video panel: its own
\* onClick={onAdvance} runs, then the click bubbles to handleContainerClick
handleVideoClick ==
  /\ InputReady
  /\ rendered.viewMode = "PRERECORDED"
  /\ SkipOrAdvance(advanceLine(script, currentLineIndex))
  /\ UNCHANGED << appStatus, script, scenes, viewMode, displayedAngieLine, isTyping,
                  isLiveFeedActive, isAutoAdvancing, shouldAdvance, audioRef, isPlaying,
                  mounted, rendered, hasCleanup, typing, videoEl, advCount,
                  ordinalUsed, audioLine, jumpLog >>
  /\ UNCHANGED otherVars

\* ---------------------------------------------------------------------- App
\* loadData: the stored script is parsed, then the title screen is shown
loadData ==
  /\ appStatus = "LOADING"
  /\ \E s \in Scripts :
        /\ script' = s
        /\ scenes' = SceneMarkersOf(s)
  /\ appStatus' = "TITLE_SCREEN"
  /\ UNCHANGED << currentLineIndex, viewMode, videoState, displayedAngieLine, isTyping,
                  isLiveFeedActive, isAutoAdvancing, shouldAdvance, audioRef, isPlaying,
                  mounted, rendered, hasCleanup, typing, videoEl, advCount,
                  ordinalUsed, audioLine, jumpLog >>
  /\ UNCHANGED otherVars

\* handleSelectScene, from a scene button of the menu
handleSelectScene ==
  /\ appStatus # "LOADING"
  /\ appStatus = "PERFORMING" => InputReady
  /\ \E k \in 1..Len(scenes) : currentLineIndex' = scenes[k].index
  /\ appStatus' = IF appStatus # "PERFORMING" /\ Len(script) # 0
                  THEN "TRANSITION_SCREEN" ELSE appStatus
  /\ ordinalUsed' = NoLookup
  /\ jumpLog' = [perf |-> jumpLog.perf \/ appStatus = "PERFORMING",
                 audio |-> IF audioRef.st \in {"loading", "playing"}
                           THEN "awaiting" ELSE "idle"]
  /\ UNCHANGED << script, scenes, viewMode, videoState, displayedAngieLine, isTyping,
                  isLiveFeedActive, isAutoAdvancing, shouldAdvance, audioRef, isPlaying,
                  mounted, rendered, hasCleanup, typing, videoEl, advCount, audioLine >>
  /\ UNCHANGED otherVars

\* handleNewScript, from the file input of the menu: handleScriptLoad sets
\* script and scenes; a line object still displayed belongs to the old script
handleNewScript ==
  /\ appStatus # "LOADING"
  /\ appStatus = "PERFORMING" => InputReady
  /\ \E s \in NewScripts :
        /\ s # script
        /\ script' = s
        /\ scenes' = SceneMarkersOf(s)
  /\ displayedAngieLine' = IF displayedAngieLine = NoLine THEN NoLine ELSE StaleLine
  /\ rendered' = [rendered EXCEPT !.displayedAngieLine =
                     IF @ = NoLine THEN NoLine ELSE StaleLine]
  /\ typing' = IF typing.inst = NoInst THEN typing
               ELSE [typing EXCEPT !.inst = << typing.inst[1], StaleLine >>]
  /\ ordinalUsed' = NoLookup
  /\ UNCHANGED << appStatus, currentLineIndex, viewMode, videoState, isTyping,
                  isLiveFeedActive, isAutoAdvancing, shouldAdvance, audioRef, isPlaying,
                  mounted, hasCleanup, videoEl, advCount, audioLine, jumpLog >>
  /\ UNCHANGED otherVars

\* the 4 s timer of handleSelectScene: PerformanceView is mounted
TransitionTimeout ==
  /\ appStatus = "TRANSITION_SCREEN"
  /\ appStatus' = "PERFORMING"
  /\ UNCHANGED << script, scenes, currentLineIndex, viewMode, videoState,
                  displayedAngieLine, isTyping, isLiveFeedActive, isAutoAdvancing,
                  shouldAdvance, audioRef, isPlaying, mounted, rendered, hasCleanup,
                  typing, videoEl, advCount, ordinalUsed, audioLine, jumpLog >>
  /\ UNCHANGED otherVars

\* ------------------------------------------------------------ specification
InitialHookState ==
  [cursor |-> 0, viewMode |-> "TEXT", videoState |-> IdleVideoState,
   displayedAngieLine |-> NoLine, isTyping |-> FALSE, isPlaying |-> FALSE,
   isLiveFeedActive |-> FALSE, isAutoAdvancing |-> FALSE, shouldAdvance |-> FALSE,
   script |-> <<>>]

Init ==
  /\ appStatus = "LOADING"
  /\ script = <<>>
  /\ scenes = <<>>
  /\ currentLineIndex = 0
  /\ viewMode = "TEXT"
  /\ videoState = IdleVideoState
  /\ displayedAngieLine = NoLine
  /\ isTyping = FALSE
  /\ isLiveFeedActive = FALSE
  /\ isAutoAdvancing = FALSE
  /\ shouldAdvance = FALSE
  /\ audioRef = NoAudio
  /\ isPlaying = FALSE
  /\ mounted = FALSE
  /\ rendered = InitialHookState
  /\ hasCleanup = FALSE
  /\ typing = [inst |-> NoInst, active |-> FALSE]
  /\ videoEl = NoVideo
  /\ advCount = 0
  /\ ordinalUsed = NoLookup
  /\ audioLine = NoLine
  /\ jumpLog = [perf |-> FALSE, audio |-> "idle"]
  /\ angieLineCounterRef = 0
  /\ completeLog = NoCompleteLog
  /\ borderEffect = "NORMAL"
  /\ navLog = NoNav
  /\ audioEls = NoElements
  /\ wasComputerSpeakingRef = FALSE
  /\ recognition = NoRecognition
  /\ endLog = << >>

Next ==
  \/ loadData
  \/ handleSelectScene
  \/ handleNewScript
  \/ TransitionTimeout
  \/ Render
  \/ TypingComplete
  \/ AudioOnPlay
  \/ AudioOnEnded
  \/ AudioOnError
  \/ VideoEnded
  \/ handleKeyDown
  \/ handleContainerClick
  \/ handleVideoClick

Spec == Init /\ [][Next]_vars

\* ======================================================================
\* The counter-based manager: usePerformanceManager with the callback
\* onComputerLineComplete, the PerformanceView that takes currentLine, and
\* the App that owns the cursor and passes advanceLine as the callback.
\* displayedAngieLine holds the text of the line here, NoText for null.
\* ======================================================================
TextYo == <<"Y", "o">>
NoText == <<>>
NoInstK == << "NONE", NoText >>
NoTypingK == [inst |-> NoInstK, active |-> FALSE, cb |-> FALSE, owner |-> NoLine]
NoVideoK ==
  [mounted |-> FALSE, cs |-> NoUrl, shown |-> NoUrl, el |-> FALSE, ended |-> FALSE,
   listener |-> FALSE, lstate |-> "IDLE", depState |-> "IDLE"]
VoicemailCue(i) ==
  [type |-> "CUE", character |-> "NONE", text |-> <<>>,
   cue |-> "PLAY_VOICEMAIL", videoFilename |-> NoUrl, audioIndex |-> i]

LinePoolK ==
  { SceneMarkerLine,
    DialogueLine(COMPUTER_CHARACTER, TextHi),
    DialogueLine(COMPUTER_CHARACTER, TextYo),
    DialogueLine(COMPUTER_CHARACTER, TextPause),
    DialogueLine("USER", TextHi),
    CueLine("CUT_TO_LIVE_CAMERA", NoUrl),
    CueLine("CUT_TO_TEXT", NoUrl),
    CueLine("CUT_TO_PRERECORDED", NoUrl),
    VoicemailCue(0),
    VoicemailCue(1) }

ScriptsK == SeqsUpTo(LinePoolK, MaxLen)

\* App.advanceLine, passed as onComputerLineComplete
advanceLineK(s, prev) == IF prev + 1 >= Len(s) THEN prev ELSE prev + 1

userCueLine(S) ==
  IF HasLine(script, S.cursor)
     /\ LineAt(script, S.cursor).type = "DIALOGUE"
     /\ ~IsComputerLine(LineAt(script, S.cursor))
  THEN LineAt(script, S.cursor).text
  ELSE NoText

isComputerSpeakingK(S) ==
  S.isTyping \/ S.isPlaying \/ isAngiesDialoguePlaying(S)

CurrentK ==
  [cursor |-> currentLineIndex, status |-> appStatus, viewMode |-> viewMode,
   videoState |-> videoState, displayedAngieLine |-> displayedAngieLine,
   isTyping |-> isTyping, isPlaying |-> isPlaying]

WorldK ==
  [cursor |-> currentLineIndex, viewMode |-> viewMode, videoState |-> videoState,
   displayedAngieLine |-> displayedAngieLine, isTyping |-> isTyping,
   isPlaying |-> isPlaying, audioRef |-> audioRef, hasCleanup |-> hasCleanup,
   audioLine |-> audioLine, jumpAudio |-> jumpLog.audio,
   angieLineCounterRef |-> angieLineCounterRef, completeLog |-> completeLog]

\* one call of onComputerLineComplete made by a path that line `owner` started
LogComplete(log, owner, cur) ==
  [log EXCEPT !.line = owner,
              !.count = IF log.line = owner THEN (IF @ < 2 THEN @ + 1 ELSE @) ELSE 1,
              !.stale = @ \/ owner # cur]

\* onComputerLineCompleteRef.current()
completeK(w, owner) ==
  [w EXCEPT !.cursor = advanceLineK(script, w.cursor),
            !.completeLog = LogComplete(w.completeLog, owner, w.cursor)]

\* case DIALOGUE, character = COMPUTER_CHARACTER
ComputerDialogueBranchK(S, line, w) ==
  IF IsTrivialText(line.text)
  THEN w
  ELSE LET w1 == [w EXCEPT !.angieLineCounterRef = @ + 1]
           n == w.angieLineCounterRef + 1
           next == S.videoState.dialogueIndex + 1
       IN CASE S.viewMode = "PRERECORDED" ->
                 IF next + 2 <= Len(videos)
                 THEN [w1 EXCEPT !.videoState =
                          [state |-> "DIALOGUE", dialogueIndex |-> next,
                           specificVideoUrl |-> NoUrl],
                                 !.completeLog.videoBy = S.cursor]
                 ELSE completeK(w1, S.cursor)
            [] S.viewMode = "TEXT" ->
                 LET w2 == [w1 EXCEPT !.isTyping = TRUE,
                                      !.displayedAngieLine = line.text,
                                      !.completeLog.displayedBy = S.cursor]
                 IN IF HasAudio(n - 1)
                    THEN playAudio(w2, n - 1, S.cursor,
                                   IF ~S.isTyping THEN "complete" ELSE "none")
                    ELSE w2
            [] OTHER ->
                 IF HasAudio(n - 1)
                 THEN playAudio(w1, n - 1, S.cursor, "complete")
                 ELSE completeK(w1, S.cursor)

\* case CUE
CueBranchK(S, line, w) ==
  CASE line.cue = "CUT_TO_LIVE_CAMERA" -> [w EXCEPT !.viewMode = "LIVE_VIDEO"]
    [] line.cue = "CUT_TO_TEXT" -> [w EXCEPT !.viewMode = "TEXT"]
    [] line.cue = "CUT_TO_PRERECORDED" ->
         [w EXCEPT !.viewMode = "PRERECORDED", !.videoState = IdleVideoState]
    [] line.cue = "PLAY_VOICEMAIL" ->
         IF line.audioIndex # Undefined
         THEN IF HasAudio(line.audioIndex)
              THEN playAudio(w, line.audioIndex, S.cursor, "complete")
              ELSE completeK(w, S.cursor)
         ELSE completeK(w, S.cursor)
    [] OTHER -> w

\* the body of the effect on [currentLineIndex, ..., viewMode, ..., videoState.dialogueIndex]
LineEffectK(S, w) ==
  IF ~HasLine(script, S.cursor) \/ S.status # "PERFORMING"
  THEN [w EXCEPT !.hasCleanup = FALSE]
  ELSE LET line == LineAt(script, S.cursor)
           w1 == CASE line.type = "DIALOGUE" /\ IsComputerLine(line) ->
                         ComputerDialogueBranchK(S, line, w)
                    [] line.type = "CUE" -> CueBranchK(S, line, w)
                    [] OTHER -> w
       IN [w1 EXCEPT !.hasCleanup = TRUE]

LineEffectDepsChangedK(S) ==
  \/ S.cursor # rendered.cursor
  \/ S.status # rendered.status
  \/ S.viewMode # rendered.viewMode
  \/ S.videoState.dialogueIndex # rendered.videoState.dialogueIndex

\* jumpToScene: the loop counts every computer dialogue line before index
RECURSIVE angieLinesBefore(_, _)
angieLinesBefore(s, index) ==
  IF index <= 0 THEN 0
  ELSE angieLinesBefore(s, index - 1)
       + (IF HasLine(s, index - 1) /\ IsComputerLine(LineAt(s, index - 1)) THEN 1 ELSE 0)

jumpToSceneK(w, index) ==
  [cancelAudio(w) EXCEPT !.displayedAngieLine = NoText,
                         !.videoState = IdleVideoState,
                         !.viewMode = "TEXT",
                         !.angieLineCounterRef = angieLinesBefore(script, index)]


\* ---------------------------------------------- the view of this manager
\* TextView, keyed by the text, effect on [angieLine, onComplete]; the
\* identity of onTypingComplete follows isAudioPlaying
TextViewCommitK(S) ==
  IF S.status # "PERFORMING" \/ S.viewMode # "TEXT"
  THEN NoTypingK
  ELSE IF typing.inst = << "TEXT", S.displayedAngieLine >> /\ typing.cb = S.isPlaying
  THEN typing
  ELSE [inst |-> << "TEXT", S.displayedAngieLine >>,
        active |-> S.displayedAngieLine # NoText,
        cb |-> S.isPlaying,
        owner |-> completeLog.displayedBy]

\* the source the effect on [state, idleVideo, dialogueVideo, isCueLineActive] sets
currentSrcK(S) ==
  IF HasLine(script, S.cursor) /\ LineAt(script, S.cursor).type = "CUE"
  THEN ""
  ELSE IF S.videoState.state = "IDLE" /\ Len(videos) >= 1
  THEN videos[1]
  ELSE IF S.videoState.state = "DIALOGUE" /\ HasLine(videos, S.videoState.dialogueIndex + 1)
  THEN videos[S.videoState.dialogueIndex + 2]
  ELSE ""

\* PrerecordedVideoView: the element is keyed by the currentSrc state of the
\* previous pass; the 'ended' listener is attached by the effect on
\* [state, onDialogueVideoEnd] to the element present when it runs
VideoViewCommitK(S) ==
  IF S.status # "PERFORMING" \/ S.viewMode # "PRERECORDED"
  THEN NoVideoK
  ELSE LET first == ~videoEl.mounted
           hasEl == ~(HasLine(script, S.cursor) /\ LineAt(script, S.cursor).type = "CUE")
           shownNow == IF first THEN "" ELSE videoEl.cs
           sameEl == ~first /\ videoEl.el /\ hasEl /\ videoEl.shown = shownNow
           runB == first \/ S.videoState.state # videoEl.depState
       IN [mounted |-> TRUE,
           cs |-> currentSrcK(S),
           shown |-> shownNow,
           el |-> hasEl,
           ended |-> sameEl /\ videoEl.ended,
           listener |-> IF runB THEN hasEl ELSE sameEl /\ videoEl.listener,
           lstate |-> IF runB THEN S.videoState.state ELSE videoEl.lstate,
           depState |-> S.videoState.state]

ViewSettledK == videoEl.mounted => videoEl.cs = videoEl.shown

RenderK ==
  /\ CurrentK # rendered \/ ~ViewSettledK
  /\ LET S == CurrentK
         newLine == S.cursor # rendered.cursor \/ S.status # rendered.status
         w0 == [WorldK EXCEPT !.completeLog.count =
                   IF newLine /\ completeLog.line = S.cursor THEN 0 ELSE @]
         w1 == IF LineEffectDepsChangedK(S)
               THEN LineEffectK(S, LineEffectCleanup(w0)) ELSE w0
     IN /\ currentLineIndex' = w1.cursor
        /\ viewMode' = w1.viewMode
        /\ videoState' = w1.videoState
        /\ displayedAngieLine' = w1.displayedAngieLine
        /\ isTyping' = w1.isTyping
        /\ isPlaying' = w1.isPlaying
        /\ audioRef' = w1.audioRef
        /\ hasCleanup' = w1.hasCleanup
        /\ audioLine' = w1.audioLine
        /\ angieLineCounterRef' = w1.angieLineCounterRef
        /\ completeLog' = w1.completeLog
        /\ rendered' = S
        /\ typing' = TextViewCommitK(S)
        /\ videoEl' = VideoViewCommitK(S)
  /\ UNCHANGED << appStatus, script, scenes, mounted, isLiveFeedActive, isAutoAdvancing,
                  shouldAdvance, borderEffect, navLog, audioEls, wasComputerSpeakingRef, recognition, endLog, advCount, ordinalUsed, jumpLog >>

\* the typing timer reaches the end of the text: onTypingComplete as captured
TypingCompleteK ==
  /\ typing.active
  /\ typing' = [typing EXCEPT !.active = FALSE]
  /\ isTyping' = FALSE
  /\ IF ~typing.cb
     THEN /\ currentLineIndex' = advanceLineK(script, currentLineIndex)
          /\ completeLog' = LogComplete(completeLog, typing.owner, currentLineIndex)
     ELSE UNCHANGED << currentLineIndex, completeLog >>
  /\ UNCHANGED << appStatus, script, scenes, viewMode, videoState, displayedAngieLine,
                  isLiveFeedActive, isAutoAdvancing, shouldAdvance, audioRef, isPlaying,
                  mounted, rendered, hasCleanup, videoEl, borderEffect, navLog, audioEls, wasComputerSpeakingRef, recognition, endLog, advCount, ordinalUsed,
                  audioLine, jumpLog, angieLineCounterRef >>

\* newAudio.onended, with the onEnd the line effect passed
AudioOnEndedK ==
  /\ audioRef.st = "playing"
  /\ audioRef' = [audioRef EXCEPT !.st = "ended"]
  /\ isPlaying' = FALSE
  /\ IF audioRef.onEnd = "complete"
     THEN /\ currentLineIndex' = advanceLineK(script, currentLineIndex)
          /\ completeLog' = LogComplete(completeLog, audioLine, currentLineIndex)
     ELSE UNCHANGED << currentLineIndex, completeLog >>
  /\ UNCHANGED << appStatus, script, scenes, viewMode, videoState, displayedAngieLine,
                  isTyping, isLiveFeedActive, isAutoAdvancing, shouldAdvance, mounted,
                  rendered, hasCleanup, typing, videoEl, borderEffect, navLog, audioEls, wasComputerSpeakingRef, recognition, endLog, advCount, ordinalUsed,
                  audioLine, jumpLog, angieLineCounterRef >>

\* the video element fires 'ended'; handleVideoEnd runs if it listens there
VideoEndedK ==
  /\ videoEl.el /\ videoEl.shown # "" /\ ~videoEl.ended
  /\ rendered.videoState.state # "IDLE"
  /\ videoEl' = [videoEl EXCEPT !.ended = TRUE]
  /\ IF videoEl.listener /\ videoEl.lstate = "DIALOGUE"
     THEN /\ videoState' = [videoState EXCEPT !.state = "IDLE"]
          /\ currentLineIndex' = advanceLineK(script, currentLineIndex)
          /\ completeLog' = LogComplete(completeLog, completeLog.videoBy, currentLineIndex)
     ELSE UNCHANGED << videoState, currentLineIndex, completeLog >>
  /\ UNCHANGED << appStatus, script, scenes, viewMode, displayedAngieLine, isTyping,
                  isLiveFeedActive, isAutoAdvancing, shouldAdvance, audioRef, isPlaying,
                  mounted, rendered, hasCleanup, typing, borderEffect, navLog, audioEls, wasComputerSpeakingRef, recognition, endLog, advCount, ordinalUsed,
                  audioLine, jumpLog, angieLineCounterRef >>

\* ------------------------------------------------- the App of this manager
InputReadyK == CurrentK = rendered /\ ViewSettledK

\* loadStoredData
loadStoredData ==
  /\ appStatus = "TITLE_SCREEN" /\ script = <<>>
  /\ \E s \in ScriptsK :
        /\ script' = s
        /\ scenes' = SceneMarkersOf(s)
  /\ UNCHANGED << appStatus, currentLineIndex, viewMode, videoState, displayedAngieLine,
                  isTyping, isLiveFeedActive, isAutoAdvancing, shouldAdvance, audioRef,
                  isPlaying, mounted, rendered, hasCleanup, typing, videoEl, borderEffect, navLog, audioEls, wasComputerSpeakingRef, recognition, endLog, advCount,
                  ordinalUsed, audioLine, jumpLog, angieLineCounterRef, completeLog >>

\* handleKeyDown, Space
handleKeyDownK ==
  /\ InputReadyK
  /\ Len(script) # 0
  /\ appStatus' = CASE appStatus = "TITLE_SCREEN" -> "TRANSITION_SCREEN"
                    [] appStatus = "TRANSITION_SCREEN" -> "PERFORMING"
                    [] OTHER -> appStatus
  /\ currentLineIndex' =
        IF appStatus = "PERFORMING" /\ userCueLine(rendered) # NoText
        THEN advanceLineK(script, currentLineIndex)
        ELSE currentLineIndex
  /\ UNCHANGED << script, scenes, viewMode, videoState, displayedAngieLine, isTyping,
                  isLiveFeedActive, isAutoAdvancing, shouldAdvance, audioRef, isPlaying,
                  mounted, rendered, hasCleanup, typing, videoEl, borderEffect, navLog, audioEls, wasComputerSpeakingRef, recognition, endLog, advCount, ordinalUsed,
                  audioLine, jumpLog, angieLineCounterRef, completeLog >>

\* handleSpeechResult while the recogniser listens, the spoken text matching
handleSpeechResult ==
  /\ InputReadyK
  /\ appStatus = "PERFORMING"
  /\ userCueLine(rendered) # NoText
  /\ ~isComputerSpeakingK(rendered)
  /\ currentLineIndex' = advanceLineK(script, currentLineIndex)
  /\ UNCHANGED << appStatus, script, scenes, viewMode, videoState, displayedAngieLine,
                  isTyping, isLiveFeedActive, isAutoAdvancing, shouldAdvance, audioRef,
                  isPlaying, mounted, rendered, hasCleanup, typing, videoEl, borderEffect, navLog, audioEls, wasComputerSpeakingRef, recognition, endLog, advCount,
                  ordinalUsed, audioLine, jumpLog, angieLineCounterRef, completeLog >>

\* handleJumpToScene
handleJumpToScene ==
  /\ InputReadyK
  /\ \E k \in 1..Len(scenes) :
        LET w == jumpToSceneK(WorldK, scenes[k].index)
        IN /\ currentLineIndex' = scenes[k].index
           /\ viewMode' = w.viewMode
           /\ videoState' = w.videoState
           /\ displayedAngieLine' = w.displayedAngieLine
           /\ audioRef' = w.audioRef
           /\ isPlaying' = w.isPlaying
           /\ angieLineCounterRef' = w.angieLineCounterRef
  /\ appStatus' = "PERFORMING"
  /\ UNCHANGED << script, scenes, isTyping, isLiveFeedActive, isAutoAdvancing,
                  shouldAdvance, mounted, rendered, hasCleanup, typing, videoEl, borderEffect, navLog, audioEls, wasComputerSpeakingRef, recognition, endLog, advCount,
                  ordinalUsed, audioLine, jumpLog, completeLog >>

InitK ==
  /\ appStatus = "TITLE_SCREEN"
  /\ script = <<>>
  /\ scenes = <<>>
  /\ currentLineIndex = 0
  /\ viewMode = "TEXT"
  /\ videoState = IdleVideoState
  /\ displayedAngieLine = NoText
  /\ isTyping = FALSE
  /\ isLiveFeedActive = FALSE
  /\ isAutoAdvancing = FALSE
  /\ shouldAdvance = FALSE
  /\ audioRef = NoAudio
  /\ isPlaying = FALSE
  /\ mounted = TRUE
  /\ rendered = [cursor |-> 0, status |-> "TITLE_SCREEN", viewMode |-> "TEXT",
                 videoState |-> IdleVideoState, displayedAngieLine |-> NoText,
                 isTyping |-> FALSE, isPlaying |-> FALSE]
  /\ hasCleanup = FALSE
  /\ typing = NoTypingK
  /\ videoEl = NoVideoK
  /\ advCount = 0
  /\ ordinalUsed = NoLookup
  /\ audioLine = NoLine
  /\ jumpLog = [perf |-> FALSE, audio |-> "idle"]
  /\ angieLineCounterRef = 0
  /\ completeLog = NoCompleteLog
  /\ borderEffect = "NORMAL"
  /\ navLog = NoNav
  /\ audioEls = NoElements
  /\ wasComputerSpeakingRef = FALSE
  /\ recognition = NoRecognition
  /\ endLog = << >>

NextK ==
  \/ loadStoredData
  \/ handleKeyDownK
  \/ handleSpeechResult
  \/ handleJumpToScene
  \/ RenderK
  \/ TypingCompleteK
  \/ AudioOnPlay
  \/ AudioOnEndedK
  \/ AudioOnError
  \/ VideoEndedK

SpecK == InitK /\ [][NextK]_vars

\* ======================================================================
\* The manual-navigation manager: usePerformanceManager(script, audioFiles,
\* videos, currentLineIndex, status) with borderEffect and jumpToScene, the
\* App whose key handler reads stateRef, and its PerformanceView.
\* displayedAngieLine holds the text of the line here, NoText for null.
\* ======================================================================
videosM == <<"idle.mp4", "1.mp4">>

LinePoolM ==
  { SceneMarkerLine,
    DialogueLine(COMPUTER_CHARACTER, TextHi),
    DialogueLine(COMPUTER_CHARACTER, TextYo),
    DialogueLine(COMPUTER_CHARACTER, TextPause),
    DialogueLine("USER", TextHi),
    CueLine("CUT_TO_LIVE_CAMERA", NoUrl),
    CueLine("END_LIVE_FEED", NoUrl),
    CueLine("CUT_TO_TEXT", NoUrl),
    CueLine("CUT_TO_PRERECORDED", NoUrl),
    CueLine("PLAY_SPECIFIC_VIDEO", "1.mp4"),
    CueLine("RED_SCREEN", NoUrl),
    CueLine("BLACKOUT", NoUrl),
    VoicemailCue(0),
    VoicemailCue(Undefined) }

ScriptsM == SeqsUpTo(LinePoolM, MaxLen)

NoVideoM ==
  [mounted |-> FALSE, cs |-> "", loopWant |-> FALSE, shown |-> "", loop |-> FALSE,
   el |-> FALSE, ended |-> FALSE, listener |-> FALSE, lstate |-> "IDLE",
   depState |-> "IDLE"]

IsNavigable(line) ==
  line.type = "CUE" \/ (line.type = "DIALOGUE" /\ line.character = COMPUTER_CHARACTER)

\* advanceLine: the for loop from prev + 1
RECURSIVE AdvanceScanM(_, _, _)
AdvanceScanM(s, i, prev) ==
  IF i < Len(s)
  THEN IF IsNavigable(LineAt(s, i)) THEN i ELSE AdvanceScanM(s, i + 1, prev)
  ELSE prev

advanceLineM(s, prev) == AdvanceScanM(s, prev + 1, prev)

\* regressLine: the for loop from prev - 1
RECURSIVE RegressScanM(_, _, _)
RegressScanM(s, i, prev) ==
  IF i >= 0
  THEN IF HasLine(s, i) /\ IsNavigable(LineAt(s, i)) THEN i ELSE RegressScanM(s, i - 1, prev)
  ELSE prev

regressLineM(s, prev) == RegressScanM(s, prev - 1, prev)

\* angieDialogueIndex: -1 off a computer line, else the count from the top
angieDialogueIndexM(s, cur) ==
  IF ~HasLine(s, cur) \/ ~IsComputerLine(LineAt(s, cur))
  THEN -1
  ELSE CountLoop(s, 0, cur, -1)

isSpecificVideoPlayingM(S) ==
  S.viewMode = "PRERECORDED" /\ S.videoState.state = "SPECIFIC"

isComputerSpeakingM(S) ==
  S.isTyping \/ S.isPlaying \/ isAngiesDialoguePlaying(S) \/ isSpecificVideoPlayingM(S)

CurrentM ==
  [cursor |-> currentLineIndex, status |-> appStatus, viewMode |-> viewMode,
   videoState |-> videoState, displayedAngieLine |-> displayedAngieLine,
   isTyping |-> isTyping, isPlaying |-> isPlaying,
   isLiveFeedActive |-> isLiveFeedActive, shouldAdvance |-> shouldAdvance,
   borderEffect |-> borderEffect]

WorldM ==
  [cursor |-> currentLineIndex, viewMode |-> viewMode, videoState |-> videoState,
   displayedAngieLine |-> displayedAngieLine, isTyping |-> isTyping,
   isPlaying |-> isPlaying, isLiveFeedActive |-> isLiveFeedActive,
   shouldAdvance |-> shouldAdvance, borderEffect |-> borderEffect,
   audioRef |-> audioRef, hasCleanup |-> hasCleanup, audioLine |-> audioLine,
   advCount |-> advCount, jumpAudio |-> jumpLog.audio]

\* jumpToScene
jumpToSceneM(w) ==
  [cancelAudio(w) EXCEPT !.displayedAngieLine = NoText,
                         !.videoState = IdleVideoState,
                         !.borderEffect = "NORMAL",
                         !.viewMode = "TEXT",
                         !.isLiveFeedActive = FALSE]

\* onSpecificVideoEnd
onSpecificVideoEndM(w) ==
  [w EXCEPT !.videoState = IdleVideoState, !.shouldAdvance = TRUE]

\* case DIALOGUE, character = COMPUTER_CHARACTER
ComputerDialogueBranchM(S, line, w) ==
  LET idx == angieDialogueIndexM(script, S.cursor)
  IN IF IsTrivialText(line.text)
     THEN [w EXCEPT !.displayedAngieLine = NoText]
     ELSE CASE S.viewMode = "PRERECORDED" ->
                 LET w1 == [w EXCEPT !.displayedAngieLine = NoText]
                 IN IF HasLine(videosM, idx + 1)
                    THEN [w1 EXCEPT !.videoState =
                             [state |-> "DIALOGUE", dialogueIndex |-> idx,
                              specificVideoUrl |-> NoUrl]]
                    ELSE w1
            [] S.viewMode = "TEXT" ->
                 LET w1 == [w EXCEPT !.isTyping = TRUE, !.displayedAngieLine = line.text]
                 IN IF HasAudio(idx) THEN playAudio(w1, idx, S.cursor, "none") ELSE w1
            [] OTHER ->
                 LET w1 == [w EXCEPT !.displayedAngieLine = NoText]
                 IN IF HasAudio(idx) THEN playAudio(w1, idx, S.cursor, "none") ELSE w1

\* case CUE
CueBranchM(S, line, w) ==
  CASE line.cue = "CUT_TO_LIVE_CAMERA" ->
         [cancelAudio(w) EXCEPT !.viewMode = "LIVE_VIDEO", !.isLiveFeedActive = TRUE,
                                !.displayedAngieLine = NoText]
    [] line.cue = "END_LIVE_FEED" ->
         [w EXCEPT !.isLiveFeedActive = FALSE, !.viewMode = "TEXT"]
    [] line.cue = "CUT_TO_TEXT" ->
         [w EXCEPT !.viewMode = "TEXT", !.isLiveFeedActive = FALSE]
    [] line.cue = "CUT_TO_PRERECORDED" ->
         [w EXCEPT !.viewMode = "PRERECORDED", !.videoState = IdleVideoState,
                   !.isLiveFeedActive = FALSE]
    [] line.cue = "PLAY_SPECIFIC_VIDEO" ->
         IF line.videoFilename # NoUrl /\ FindByName(videosM, 1, line.videoFilename) # NoUrl
         THEN [cancelAudio(w) EXCEPT
                  !.viewMode = "PRERECORDED",
                  !.videoState = [state |-> "SPECIFIC", dialogueIndex |-> -1,
                                  specificVideoUrl |->
                                     FindByName(videosM, 1, line.videoFilename)],
                  !.displayedAngieLine = NoText]
         ELSE w
    [] line.cue = "PLAY_VOICEMAIL" ->
         IF line.audioIndex # Undefined /\ HasAudio(line.audioIndex)
         THEN playAudio(w, line.audioIndex, S.cursor, "none")
         ELSE w
    [] line.cue = "BLACKOUT" -> [w EXCEPT !.displayedAngieLine = NoText]
    [] line.cue = "RED_SCREEN" -> [w EXCEPT !.borderEffect = "RED"]
    [] line.cue = "FLASHING_SCREEN" -> [w EXCEPT !.borderEffect = "FLASHING"]
    [] line.cue = "NORMAL_SCREEN" -> [w EXCEPT !.borderEffect = "NORMAL"]
    [] OTHER -> w

\* the body of the effect on [currentLineIndex, ..., viewMode, ..., angieDialogueIndex]
LineEffectM(S, w) ==
  IF ~HasLine(script, S.cursor) \/ S.status # "PERFORMING"
  THEN [w EXCEPT !.hasCleanup = FALSE]
  ELSE LET line == LineAt(script, S.cursor)
           w1 == [w EXCEPT !.isTyping = FALSE]
           w2 == CASE line.type = "DIALOGUE" /\ IsComputerLine(line) ->
                         ComputerDialogueBranchM(S, line, w1)
                    [] line.type = "DIALOGUE" /\ ~IsComputerLine(line) ->
                         [cancelAudio(w1) EXCEPT !.displayedAngieLine = NoText]
                    [] line.type = "CUE" -> CueBranchM(S, line, w1)
                    [] OTHER -> [w1 EXCEPT !.displayedAngieLine = NoText]
       IN [w2 EXCEPT !.hasCleanup = TRUE]

LineEffectDepsChangedM(S) ==
  \/ S.cursor # rendered.cursor
  \/ S.status # rendered.status
  \/ S.viewMode # rendered.viewMode

\* variation: the effect advances and leaves the request standing
AdvanceKeepingRequestM(S, w) ==
  IF S.shouldAdvance
  THEN [w EXCEPT !.cursor = advanceLineM(script, w.cursor),
                 !.advCount = w.advCount + 1]
  ELSE w

\* App: the effect on [shouldAdvance, advanceLine, resetAdvance]
ShouldAdvanceEffectM(S, w) ==
  IF S.shouldAdvance
  THEN [w EXCEPT !.cursor = advanceLineM(script, w.cursor),
                 !.advCount = w.advCount + 1,
                 !.shouldAdvance = FALSE]
  ELSE w


\* ---------------------------------------------- the view of this manager
\* TextView, keyed by the text, effect on [angieLine, onComplete, typingSpeed]
TextViewCommitM(S) ==
  IF S.status # "PERFORMING" \/ S.viewMode # "TEXT"
  THEN NoTypingK
  ELSE IF typing.inst = << "TEXT", S.displayedAngieLine >>
  THEN typing
  ELSE [inst |-> << "TEXT", S.displayedAngieLine >>,
        active |-> S.displayedAngieLine # NoText,
        cb |-> FALSE,
        owner |-> NoLine]

\* a TextView mounted with angieLine === null calls onComplete at once
TextViewEffectM(S, w) ==
  IF /\ S.status = "PERFORMING" /\ S.viewMode = "TEXT"
     /\ typing.inst # << "TEXT", S.displayedAngieLine >>
     /\ S.displayedAngieLine = NoText
  THEN [w EXCEPT !.isTyping = FALSE]
  ELSE w

idleVideoUrlM == FindIdle(videosM, 1)

\* videos.find(v => v.file.name.startsWith(String(videoState.dialogueIndex + 1)))
RECURSIVE FindByNumber(_, _, _)
FindByNumber(vs, k, n) ==
  IF k > Len(vs) THEN NoUrl
  ELSE IF n = 1 /\ vs[k] = "1.mp4" THEN vs[k]
       ELSE FindByNumber(vs, k + 1, n)

dialogueVideoUrlM(S) == FindByNumber(videosM, 1, S.videoState.dialogueIndex + 1)

OrEmpty(url) == IF url = NoUrl THEN "" ELSE url

\* the source the effect on [videoState, idleVideoUrl, dialogueVideoUrl] sets
currentSrcM(S) ==
  CASE S.videoState.state = "SPECIFIC" -> OrEmpty(S.videoState.specificVideoUrl)
    [] S.videoState.state = "DIALOGUE" ->
         IF dialogueVideoUrlM(S) # NoUrl THEN dialogueVideoUrlM(S)
         ELSE OrEmpty(idleVideoUrlM)
    [] OTHER -> OrEmpty(idleVideoUrlM)

isLoopingM(S) == currentSrcM(S) # "" /\ currentSrcM(S) = idleVideoUrlM

\* PrerecordedVideoView: the element is keyed by the currentSrc state of the
\* previous pass; the 'ended' listener is attached by the effect on
\* [videoState.state, ...] to the element present when it runs
VideoViewCommitM(S) ==
  IF S.status # "PERFORMING" \/ S.viewMode # "PRERECORDED"
  THEN NoVideoM
  ELSE LET first == ~videoEl.mounted
           shownNow == IF first THEN "" ELSE videoEl.cs
           hasEl == shownNow # ""
           sameEl == ~first /\ videoEl.el /\ hasEl /\ videoEl.shown = shownNow
           runB == first \/ S.videoState.state # videoEl.depState
       IN [mounted |-> TRUE,
           cs |-> currentSrcM(S),
           loopWant |-> isLoopingM(S),
           shown |-> shownNow,
           loop |-> IF first THEN FALSE ELSE videoEl.loopWant,
           el |-> hasEl,
           ended |-> sameEl /\ videoEl.ended,
           listener |-> IF runB THEN hasEl ELSE sameEl /\ videoEl.listener,
           lstate |-> IF runB THEN S.videoState.state ELSE videoEl.lstate,
           depState |-> S.videoState.state]

ViewSettledM ==
  videoEl.mounted => videoEl.cs = videoEl.shown /\ videoEl.loopWant = videoEl.loop

\* one render pass with the effects it schedules: the view's, then the
\* manager's line effect, then the App's
RenderM ==
  /\ CurrentM # rendered \/ ~ViewSettledM
  /\ LET S == CurrentM
         newLine == S.cursor # rendered.cursor \/ S.status # rendered.status
         w0 == TextViewEffectM(S, [WorldM EXCEPT !.advCount = IF newLine THEN 0 ELSE @])
         w1 == IF LineEffectDepsChangedM(S)
               THEN LineEffectM(S, LineEffectCleanup(w0)) ELSE w0
         w2 == ShouldAdvanceEffectM(S, w1)
     IN /\ currentLineIndex' = w2.cursor
        /\ viewMode' = w2.viewMode
        /\ videoState' = w2.videoState
        /\ displayedAngieLine' = w2.displayedAngieLine
        /\ isTyping' = w2.isTyping
        /\ isPlaying' = w2.isPlaying
        /\ isLiveFeedActive' = w2.isLiveFeedActive
        /\ shouldAdvance' = w2.shouldAdvance
        /\ borderEffect' = w2.borderEffect
        /\ audioRef' = w2.audioRef
        /\ hasCleanup' = w2.hasCleanup
        /\ audioLine' = w2.audioLine
        /\ advCount' = w2.advCount
        /\ jumpLog' = [jumpLog EXCEPT !.audio = w2.jumpAudio]
        /\ rendered' = S
        /\ typing' = TextViewCommitM(S)
        /\ videoEl' = VideoViewCommitM(S)
        /\ endLog' = IF newLine THEN << >> ELSE endLog
  /\ UNCHANGED << appStatus, script, scenes, mounted, isAutoAdvancing, ordinalUsed,
                  angieLineCounterRef, completeLog, navLog, audioEls, wasComputerSpeakingRef, recognition >>

\* the typing timer reaches the end of the text: onTypingComplete
TypingCompleteM ==
  /\ typing.active
  /\ typing' = [typing EXCEPT !.active = FALSE]
  /\ isTyping' = FALSE
  /\ UNCHANGED << appStatus, script, scenes, currentLineIndex, viewMode, videoState,
                  displayedAngieLine, isLiveFeedActive, isAutoAdvancing, shouldAdvance,
                  audioRef, isPlaying, mounted, rendered, hasCleanup, videoEl, advCount,
                  ordinalUsed, audioLine, jumpLog >>
  /\ UNCHANGED otherVars

\* the video element fires 'ended'; handleVideoEnd runs if it listens there
VideoEndedM ==
  /\ videoEl.el /\ ~videoEl.loop /\ ~videoEl.ended
  /\ videoEl' = [videoEl EXCEPT !.ended = TRUE]
  /\ LET w == IF ~videoEl.listener THEN WorldM
              ELSE IF videoEl.lstate = "DIALOGUE"
              THEN [WorldM EXCEPT !.videoState.state = "IDLE"]
              ELSE IF videoEl.lstate = "SPECIFIC"
              THEN onSpecificVideoEndM(WorldM)
              ELSE WorldM
     IN /\ videoState' = w.videoState
        /\ shouldAdvance' = w.shouldAdvance
  /\ endLog' = IF videoEl.listener /\ videoEl.lstate = "SPECIFIC"
               THEN Append(endLog, "ended") ELSE endLog
  /\ UNCHANGED << appStatus, script, scenes, currentLineIndex, viewMode,
                  displayedAngieLine, isTyping, isLiveFeedActive, isAutoAdvancing,
                  audioRef, isPlaying, mounted, rendered, hasCleanup, typing, advCount,
                  ordinalUsed, audioLine, jumpLog >>
  /\ UNCHANGED << angieLineCounterRef, completeLog, borderEffect, navLog, audioEls,
                  wasComputerSpeakingRef, recognition >>

\* ------------------------------------------------- the App of this manager
InputReadyM == CurrentM = rendered /\ ViewSettledM

\* loadStoredData
loadStoredDataM ==
  /\ appStatus = "LOADING"
  /\ \E s \in ScriptsM :
        /\ script' = s
        /\ scenes' = SceneMarkersOf(s)
  /\ appStatus' = "TITLE_SCREEN"
  /\ UNCHANGED << currentLineIndex, viewMode, videoState, displayedAngieLine,
                  isTyping, isLiveFeedActive, isAutoAdvancing, shouldAdvance, audioRef,
                  isPlaying, mounted, rendered, hasCleanup, typing, videoEl, advCount,
                  ordinalUsed, audioLine, jumpLog >>
  /\ UNCHANGED otherVars

KeyCodes == {"Space", "ArrowRight", "ArrowLeft"}

\* handleKeyDown, reading stateRef and callbackRef
handleKeyDownM ==
  /\ InputReadyM
  /\ \E code \in KeyCodes :
        /\ IF code = "Space" /\ rendered.status # "PERFORMING"
           THEN /\ appStatus' =
                     IF Len(script) = 0 THEN appStatus
                     ELSE CASE rendered.status = "TITLE_SCREEN" -> "TRANSITION_SCREEN"
                            [] rendered.status = "TRANSITION_SCREEN" -> "PROCESSING_SCREEN"
                            [] rendered.status = "PROCESSING_SCREEN" -> "PERFORMING"
                            [] OTHER -> appStatus
                /\ UNCHANGED << currentLineIndex, videoState, shouldAdvance >>
           ELSE IF rendered.status = "PERFORMING"
           THEN LET w == IF code \in {"ArrowRight", "Space"}
                         THEN IF isSpecificVideoPlayingM(rendered)
                              THEN onSpecificVideoEndM(WorldM)
                              ELSE IF ~isComputerSpeakingM(rendered)
                              THEN [WorldM EXCEPT !.cursor = advanceLineM(script, @)]
                              ELSE WorldM
                         ELSE IF ~isComputerSpeakingM(rendered)
                              THEN [WorldM EXCEPT !.cursor = regressLineM(script, @)]
                              ELSE WorldM
                IN /\ currentLineIndex' = w.cursor
                   /\ videoState' = w.videoState
                   /\ shouldAdvance' = w.shouldAdvance
                   /\ UNCHANGED appStatus
           ELSE UNCHANGED << appStatus, currentLineIndex, videoState, shouldAdvance >>
        /\ endLog' = IF /\ rendered.status = "PERFORMING"
                        /\ code \in {"ArrowRight", "Space"}
                        /\ isSpecificVideoPlayingM(rendered)
                     THEN Append(endLog, "key") ELSE endLog
  /\ UNCHANGED << script, scenes, viewMode, displayedAngieLine, isTyping,
                  isLiveFeedActive, isAutoAdvancing, audioRef, isPlaying, mounted,
                  rendered, hasCleanup, typing, videoEl, advCount, ordinalUsed,
                  audioLine, jumpLog >>
  /\ UNCHANGED << angieLineCounterRef, completeLog, borderEffect, navLog, audioEls,
                  wasComputerSpeakingRef, recognition >>

\* handleJumpToScene, from the menu
handleJumpToSceneM ==
  /\ InputReadyM
  /\ appStatus # "LOADING"
  /\ \E k \in 1..Len(scenes) :
        LET armed == appStatus = "PERFORMING" /\ audioRef.st \in {"loading", "playing"}
            w == jumpToSceneM([WorldM EXCEPT !.jumpAudio =
                                  IF armed THEN "awaiting" ELSE "idle"])
        IN /\ currentLineIndex' = scenes[k].index
           /\ viewMode' = w.viewMode
           /\ videoState' = w.videoState
           /\ displayedAngieLine' = w.displayedAngieLine
           /\ borderEffect' = w.borderEffect
           /\ isLiveFeedActive' = w.isLiveFeedActive
           /\ audioRef' = w.audioRef
           /\ isPlaying' = w.isPlaying
           /\ jumpLog' = [perf |-> appStatus = "PERFORMING", audio |-> w.jumpAudio]
  /\ appStatus' = "PERFORMING"
  /\ UNCHANGED << script, scenes, isTyping, isAutoAdvancing, shouldAdvance, mounted,
                  rendered, hasCleanup, typing, videoEl, advCount, ordinalUsed,
                  audioLine, angieLineCounterRef, completeLog, navLog, audioEls, wasComputerSpeakingRef, recognition, endLog >>

InitM ==
  /\ appStatus = "LOADING"
  /\ script = <<>>
  /\ scenes = <<>>
  /\ currentLineIndex = 0
  /\ viewMode = "TEXT"
  /\ videoState = IdleVideoState
  /\ displayedAngieLine = NoText
  /\ isTyping = FALSE
  /\ isLiveFeedActive = FALSE
  /\ isAutoAdvancing = FALSE
  /\ shouldAdvance = FALSE
  /\ audioRef = NoAudio
  /\ isPlaying = FALSE
  /\ mounted = TRUE
  /\ rendered = [cursor |-> 0, status |-> "LOADING", viewMode |-> "TEXT",
                 videoState |-> IdleVideoState, displayedAngieLine |-> NoText,
                 isTyping |-> FALSE, isPlaying |-> FALSE, isLiveFeedActive |-> FALSE,
                 shouldAdvance |-> FALSE, borderEffect |-> "NORMAL"]
  /\ hasCleanup = FALSE
  /\ typing = NoTypingK
  /\ videoEl = NoVideoM
  /\ advCount = 0
  /\ ordinalUsed = NoLookup
  /\ audioLine = NoLine
  /\ jumpLog = [perf |-> FALSE, audio |-> "idle"]
  /\ angieLineCounterRef = 0
  /\ completeLog = NoCompleteLog
  /\ borderEffect = "NORMAL"
  /\ navLog = NoNav
  /\ audioEls = NoElements
  /\ wasComputerSpeakingRef = FALSE
  /\ recognition = NoRecognition
  /\ endLog = << >>

NextM ==
  \/ loadStoredDataM
  \/ handleKeyDownM
  \/ handleJumpToSceneM
  \/ RenderM
  \/ TypingCompleteM
  \/ AudioOnPlay
  \/ AudioOnEnded
  \/ AudioOnError
  \/ VideoEndedM

SpecM == InitM /\ [][NextM]_vars

\* ======================================================================
\* The manual-navigation manager and its App with the 'ended' event of a
\* SPECIFIC clip delivered to handleVideoEnd by the environment: the two
\* callers of onSpecificVideoEnd, the view's handler and the key handler,
\* race for the same clip.
\* ======================================================================
\* handleVideoEnd of the last commit, for a clip that commit showed as SPECIFIC
handleVideoEndM ==
  /\ appStatus = "PERFORMING" /\ rendered.status = "PERFORMING"
  /\ isSpecificVideoPlayingM(rendered)
  /\ endLog \in { << >>, << "key" >> }
  /\ LET w == onSpecificVideoEndM(WorldM)
     IN /\ videoState' = w.videoState
        /\ shouldAdvance' = w.shouldAdvance
  /\ endLog' = Append(endLog, "ended")
  /\ UNCHANGED << appStatus, script, scenes, currentLineIndex, viewMode,
                  displayedAngieLine, isTyping, isLiveFeedActive, isAutoAdvancing,
                  audioRef, isPlaying, mounted, rendered, hasCleanup, typing, videoEl,
                  advCount, ordinalUsed, audioLine, jumpLog >>
  /\ UNCHANGED << angieLineCounterRef, completeLog, borderEffect, navLog, audioEls,
                  wasComputerSpeakingRef, recognition >>

\* handleKeyDown for a skip key that arrives after the clip's 'ended' event
\* and before the render it asked for: stateRef still shows the clip
handleKeyDownStaleM ==
  /\ appStatus = "PERFORMING" /\ rendered.status = "PERFORMING"
  /\ CurrentM # rendered
  /\ isSpecificVideoPlayingM(rendered)
  /\ endLog = << "ended" >>
  /\ LET w == onSpecificVideoEndM(WorldM)
     IN /\ videoState' = w.videoState
        /\ shouldAdvance' = w.shouldAdvance
  /\ endLog' = Append(endLog, "key")
  /\ UNCHANGED << appStatus, script, scenes, currentLineIndex, viewMode,
                  displayedAngieLine, isTyping, isLiveFeedActive, isAutoAdvancing,
                  audioRef, isPlaying, mounted, rendered, hasCleanup, typing, videoEl,
                  advCount, ordinalUsed, audioLine, jumpLog >>
  /\ UNCHANGED << angieLineCounterRef, completeLog, borderEffect, navLog, audioEls,
                  wasComputerSpeakingRef, recognition >>

NextEnd ==
  \/ loadStoredDataM
  \/ handleKeyDownM
  \/ handleKeyDownStaleM
  \/ handleJumpToSceneM
  \/ RenderM
  \/ TypingCompleteM
  \/ AudioOnPlay
  \/ AudioOnEnded
  \/ AudioOnError
  \/ VideoEndedM
  \/ handleVideoEndM

SpecEnd == InitM /\ [][NextEnd]_vars



\* ======================================================================
\* The navigation callbacks on their own: advanceLine and regressLine of
\* the scene-aware App and of the manual-navigation App, called from every
\* position of every script of a bounded set.
\* ======================================================================
NavLinePool ==
  { SceneMarkerLine,
    DialogueLine(COMPUTER_CHARACTER, TextHi),
    DialogueLine("USER", TextHi),
    CueLine("CUT_TO_TEXT", NoUrl) }

NavScripts == SeqsUpTo(NavLinePool, NavLen)

\* the record of a call of callback op made with the cursor at currentLineIndex
LogNav(op) ==
  [op |-> op, from |-> currentLineIndex,
   calls |-> IF navLog.op # op THEN 1
             ELSE IF navLog.calls < MaxCalls THEN navLog.calls + 1 ELSE MaxCalls]

NavFrame ==
  UNCHANGED << appStatus, script, scenes, viewMode, videoState, displayedAngieLine,
               isTyping, isLiveFeedActive, isAutoAdvancing, shouldAdvance, audioRef,
               isPlaying, mounted, rendered, hasCleanup, typing, videoEl, advCount,
               ordinalUsed, audioLine, jumpLog, angieLineCounterRef, completeLog,
               borderEffect, audioEls, wasComputerSpeakingRef, recognition, endLog >>

\* setCurrentLineIndex(prev => ...) of advanceLine, scene-aware App
NavAdvance ==
  /\ currentLineIndex' = advanceLine(script, currentLineIndex)
  /\ navLog' = LogNav("advance")
  /\ NavFrame

\* setCurrentLineIndex(prev => ...) of regressLine, scene-aware App
NavRegress ==
  /\ currentLineIndex' = regressLine(script, currentLineIndex)
  /\ navLog' = LogNav("regress")
  /\ NavFrame

\* setCurrentLineIndex(prev => ...) of advanceLine, manual-navigation App
NavAdvanceM ==
  /\ currentLineIndex' = advanceLineM(script, currentLineIndex)
  /\ navLog' = LogNav("advanceM")
  /\ NavFrame

\* setCurrentLineIndex(prev => ...) of regressLine, manual-navigation App
NavRegressM ==
  /\ currentLineIndex' = regressLineM(script, currentLineIndex)
  /\ navLog' = LogNav("regressM")
  /\ NavFrame

InitNav ==
  /\ appStatus = "PERFORMING"
  /\ script \in NavScripts
  /\ scenes = SceneMarkersOf(script)
  /\ currentLineIndex \in 0..(IF Len(script) = 0 THEN 0 ELSE Len(script) - 1)
  /\ viewMode = "TEXT"
  /\ videoState = IdleVideoState
  /\ displayedAngieLine = NoLine
  /\ isTyping = FALSE
  /\ isLiveFeedActive = FALSE
  /\ isAutoAdvancing = FALSE
  /\ shouldAdvance = FALSE
  /\ audioRef = NoAudio
  /\ isPlaying = FALSE
  /\ mounted = FALSE
  /\ rendered = InitialHookState
  /\ hasCleanup = FALSE
  /\ typing = [inst |-> NoInst, active |-> FALSE]
  /\ videoEl = NoVideo
  /\ advCount = 0
  /\ ordinalUsed = NoLookup
  /\ audioLine = NoLine
  /\ jumpLog = [perf |-> FALSE, audio |-> "idle"]
  /\ angieLineCounterRef = 0
  /\ completeLog = NoCompleteLog
  /\ borderEffect = "NORMAL"
  /\ navLog = NoNav
  /\ audioEls = NoElements
  /\ wasComputerSpeakingRef = FALSE
  /\ recognition = NoRecognition
  /\ endLog = << >>

NextNav ==
  \/ NavAdvance
  \/ NavRegress
  \/ NavAdvanceM
  \/ NavRegressM

SpecNav == InitNav /\ [][NextNav]_vars


\* ======================================================================
\* The memo angieDialogueIndex on its own: the value the scene-aware and
\* the manual-navigation manager compute for every cursor position of
\* every script of a bounded set.
\* ======================================================================
OrdLinePool ==
  { SceneMarkerLine,
    DialogueLine(COMPUTER_CHARACTER, TextHi),
    DialogueLine(COMPUTER_CHARACTER, TextPause),
    DialogueLine(COMPUTER_CHARACTER, <<>>),
    DialogueLine("USER", TextHi),
    CueLine("CUT_TO_TEXT", NoUrl) }

OrdScripts == SeqsUpTo(OrdLinePool, OrdLen)

OrdFrame ==
  UNCHANGED << appStatus, script, scenes, viewMode, videoState, displayedAngieLine,
               isTyping, isLiveFeedActive, isAutoAdvancing, shouldAdvance, audioRef,
               isPlaying, mounted, rendered, hasCleanup, typing, videoEl, advCount,
               audioLine, jumpLog, angieLineCounterRef, completeLog, borderEffect, audioEls, wasComputerSpeakingRef, recognition, endLog >>

\* the cursor is set and the memo of the scene-aware manager is recomputed
OrdMemo ==
  /\ \E p \in 0..(IF Len(script) = 0 THEN 0 ELSE Len(script) - 1) :
        /\ currentLineIndex' = p
        /\ ordinalUsed' = [line |-> p, ordinal |-> angieDialogueIndex(script, scenes, p)]
        /\ navLog' = [op |-> "ordinal", from |-> p, calls |-> 1]
  /\ OrdFrame

\* the cursor is set and the memo of the manual-navigation manager is recomputed
OrdMemoM ==
  /\ \E p \in 0..(IF Len(script) = 0 THEN 0 ELSE Len(script) - 1) :
        /\ currentLineIndex' = p
        /\ ordinalUsed' = [line |-> p, ordinal |-> angieDialogueIndexM(script, p)]
        /\ navLog' = [op |-> "ordinalM", from |-> p, calls |-> 1]
  /\ OrdFrame

InitOrd ==
  /\ appStatus = "PERFORMING"
  /\ script \in OrdScripts
  /\ scenes = SceneMarkersOf(script)
  /\ currentLineIndex = 0
  /\ viewMode = "TEXT"
  /\ videoState = IdleVideoState
  /\ displayedAngieLine = NoLine
  /\ isTyping = FALSE
  /\ isLiveFeedActive = FALSE
  /\ isAutoAdvancing = FALSE
  /\ shouldAdvance = FALSE
  /\ audioRef = NoAudio
  /\ isPlaying = FALSE
  /\ mounted = FALSE
  /\ rendered = InitialHookState
  /\ hasCleanup = FALSE
  /\ typing = [inst |-> NoInst, active |-> FALSE]
  /\ videoEl = NoVideo
  /\ advCount = 0
  /\ ordinalUsed = NoLookup
  /\ audioLine = NoLine
  /\ jumpLog = [perf |-> FALSE, audio |-> "idle"]
  /\ angieLineCounterRef = 0
  /\ completeLog = NoCompleteLog
  /\ borderEffect = "NORMAL"
  /\ navLog = NoNav
  /\ audioEls = NoElements
  /\ wasComputerSpeakingRef = FALSE
  /\ recognition = NoRecognition
  /\ endLog = << >>

NextOrd ==
  \/ OrdMemo
  \/ OrdMemoM

SpecOrd == InitOrd /\ [][NextOrd]_vars

\* ======================================================================
\* The audio player hook on its own (useAudioPlayer): play and cancel are
\* called in any order, and every Audio element ever constructed keeps
\* firing its events, also after the ref has moved on to another element.
\* ======================================================================

\* new Audio(url) after newAudio.play(): the play promise is pending
NewAudio(url, onEnd) ==
  [st |-> "loading", src |-> url, onEnd |-> onEnd, ends |-> 0,
   stopped |-> FALSE, evt |-> FALSE, err |-> "none"]

\* the element is neither paused nor ended nor failed
IsLiveElement(e) == e.st \in {"loading", "playing"}

\* audio.pause(): a live element pauses and queues its pause event (and the
\* rejection of a pending play promise); any other element is left alone
pause(e) ==
  IF IsLiveElement(e) THEN [e EXCEPT !.st = "paused", !.evt = TRUE] ELSE e

\* audio.src = '': the resource is released; the element queues the events
\* of the aborted load
releaseSrc(e) == [e EXCEPT !.src = "", !.stopped = TRUE, !.evt = TRUE]

\* play() that constructs the new element without touching the previous one
playWithoutStopping(p, url, onEnd) ==
  IF url = "" THEN p
  ELSE [all     |-> Append(p.all, NewAudio(url, onEnd)),
        current |-> Len(p.all) + 1]

\* play(url, onEnd)
play(p, url, onEnd) ==
  IF url = "" THEN p
  ELSE LET previous == IF p.current # 0
                       THEN [p.all EXCEPT ![p.current] = releaseSrc(pause(@))]
                       ELSE p.all
       IN [all     |-> Append(previous, NewAudio(url, onEnd)),
           current |-> Len(p.all) + 1]

\* cancel()
cancel(p) ==
  IF p.current # 0
  THEN [all     |-> [p.all EXCEPT ![p.current] = releaseSrc(pause(@))],
        current |-> 0]
  ELSE p

AudioFrame ==
  UNCHANGED << appStatus, script, scenes, currentLineIndex, viewMode, videoState,
               displayedAngieLine, isTyping, isLiveFeedActive, isAutoAdvancing,
               shouldAdvance, audioRef, mounted, rendered, hasCleanup, typing,
               videoEl, advCount, ordinalUsed, audioLine, jumpLog,
               angieLineCounterRef, completeLog, borderEffect, navLog,
               wasComputerSpeakingRef, recognition, endLog >>

\* the owner of the hook calls play
PlayCall ==
  /\ Len(audioEls.all) < MaxPlays
  /\ \E url \in {"", audioFiles[1]}, onEnd \in BOOLEAN :
        audioEls' = play(audioEls, url, onEnd)
  /\ UNCHANGED isPlaying
  /\ AudioFrame

\* the owner of the hook calls cancel
CancelCall ==
  /\ audioEls' = cancel(audioEls)
  /\ isPlaying' = IF audioEls.current # 0 THEN FALSE ELSE isPlaying
  /\ AudioFrame

\* newAudio.onplay
ElementOnPlay ==
  /\ \E i \in 1..Len(audioEls.all) :
        /\ audioEls.all[i].st = "loading"
        /\ audioEls' = [audioEls EXCEPT !.all[i].st = "playing"]
  /\ isPlaying' = TRUE
  /\ AudioFrame

\* newAudio.onended
ElementOnEnded ==
  /\ \E i \in 1..Len(audioEls.all) :
        /\ audioEls.all[i].st = "playing"
        /\ audioEls' = [audioEls EXCEPT !.all[i].st = "ended",
                                        !.all[i].ends = IF audioEls.all[i].onEnd
                                                        THEN @ + 1 ELSE @]
  /\ isPlaying' = FALSE
  /\ AudioFrame

\* newAudio.onerror: the resource cannot be fetched or decoded
ElementOnError ==
  /\ \E i \in 1..Len(audioEls.all) :
        /\ IsLiveElement(audioEls.all[i])
        /\ audioEls' = [audioEls EXCEPT !.all[i].st = "failed",
                                        !.all[i].err = "error"]
  /\ isPlaying' = FALSE
  /\ AudioFrame

\* newAudio.play().catch: the play promise of a live element is rejected
ElementPlayRejected ==
  /\ \E i \in 1..Len(audioEls.all) :
        /\ audioEls.all[i].st = "loading"
        /\ audioEls' = [audioEls EXCEPT !.all[i].st = "failed",
                                        !.all[i].err = "rejected"]
  /\ isPlaying' = FALSE
  /\ AudioFrame

\* onpause, onabort, onerror and the AbortError of play().catch on an
\* element that was paused or released: each only calls setIsPlaying(false)
ElementStoppedEvents ==
  /\ \E i \in 1..Len(audioEls.all) :
        /\ audioEls.all[i].evt
        /\ audioEls' = [audioEls EXCEPT !.all[i].evt = FALSE]
  /\ isPlaying' = FALSE
  /\ AudioFrame

InitAudio ==
  /\ appStatus = "PERFORMING"
  /\ script = << >>
  /\ scenes = << >>
  /\ currentLineIndex = 0
  /\ viewMode = "TEXT"
  /\ videoState = IdleVideoState
  /\ displayedAngieLine = NoLine
  /\ isTyping = FALSE
  /\ isLiveFeedActive = FALSE
  /\ isAutoAdvancing = FALSE
  /\ shouldAdvance = FALSE
  /\ audioRef = NoAudio
  /\ isPlaying = FALSE
  /\ mounted = TRUE
  /\ rendered = InitialHookState
  /\ hasCleanup = FALSE
  /\ typing = [inst |-> NoInst, active |-> FALSE]
  /\ videoEl = NoVideo
  /\ advCount = 0
  /\ ordinalUsed = NoLookup
  /\ audioLine = NoLine
  /\ jumpLog = [perf |-> FALSE, audio |-> "idle"]
  /\ angieLineCounterRef = 0
  /\ completeLog = NoCompleteLog
  /\ borderEffect = "NORMAL"
  /\ navLog = NoNav
  /\ audioEls = NoElements
  /\ wasComputerSpeakingRef = FALSE
  /\ recognition = NoRecognition
  /\ endLog = << >>

NextAudio ==
  \/ PlayCall
  \/ CancelCall
  \/ ElementOnPlay
  \/ ElementOnEnded
  \/ ElementOnError
  \/ ElementPlayRejected
  \/ ElementStoppedEvents

SpecAudio == InitAudio /\ [][NextAudio]_vars

\* ======================================================================
\* The cursor-owning manager (src/hooks/usePerformanceManager.ts): the hook
\* keeps currentLineIndex in its own state and exposes advanceLine and
\* jumpToScene.  It has no host in the repository; its callbacks are
\* called whenever the state they report on holds.
\* ======================================================================

LinePoolH ==
  { SceneMarkerLine,
    DialogueLine(COMPUTER_CHARACTER, TextHi),
    DialogueLine("USER", TextHi),
    CueLine("CUT_TO_PRERECORDED", NoUrl),
    CueLine("CUT_TO_TEXT", NoUrl) }

ScriptsH == SeqsUpTo(LinePoolH, MaxLen) \ { << >> }

isComputerSpeakingH(S) == S.isTyping \/ S.isPlaying

\* the hook state a render sees
CurrentH ==
  [cursor |-> currentLineIndex, viewMode |-> viewMode, videoState |-> videoState,
   displayedAngieLine |-> displayedAngieLine, isTyping |-> isTyping,
   isPlaying |-> isPlaying]

WorldH ==
  [cursor |-> currentLineIndex, viewMode |-> viewMode, videoState |-> videoState,
   displayedAngieLine |-> displayedAngieLine, isTyping |-> isTyping,
   isPlaying |-> isPlaying, audioRef |-> audioRef, hasCleanup |-> hasCleanup,
   audioLine |-> audioLine, jumpAudio |-> jumpLog.audio,
   angieLineCounterRef |-> angieLineCounterRef,
   wasComputerSpeakingRef |-> wasComputerSpeakingRef]

\* advanceLine: cancelAudio(), then setCurrentLineIndex(prev => ...)
advanceLineH(w) ==
  [cancelAudio(w) EXCEPT !.cursor = IF @ + 1 >= Len(script) THEN @ ELSE @ + 1]

\* jumpToScene(index)
jumpToSceneH(w, index) ==
  [cancelAudio(w) EXCEPT !.cursor = index,
                         !.displayedAngieLine = NoText,
                         !.videoState = IdleVideoState,
                         !.viewMode = "TEXT",
                         !.angieLineCounterRef = angieLinesBefore(script, index)]

\* the effect on [isComputerSpeaking, advanceLine]
SpeakingEffectH(S, w) ==
  LET w1 == IF w.wasComputerSpeakingRef /\ ~isComputerSpeakingH(S)
            THEN advanceLineH(w) ELSE w
  IN [w1 EXCEPT !.wasComputerSpeakingRef = isComputerSpeakingH(S)]

\* the body of the effect on [currentLineIndex, ..., viewMode, ..., isComputerSpeaking]
LineEffectH(S, w) ==
  IF ~HasLine(script, S.cursor) \/ appStatus # "PERFORMING"
  THEN [w EXCEPT !.hasCleanup = FALSE]
  ELSE LET line == LineAt(script, S.cursor)
           n == w.angieLineCounterRef + 1
           w1 ==
             CASE line.type = "DIALOGUE" /\ IsComputerLine(line) ->
                    LET c == [w EXCEPT !.angieLineCounterRef = n]
                        a == IF HasAudio(n - 1) THEN playAudio(c, n - 1, S.cursor, "none")
                             ELSE c
                    IN [a EXCEPT !.isTyping = TRUE, !.displayedAngieLine = line.text]
               [] line.type = "DIALOGUE" ->
                    IF S.viewMode = "PRERECORDED"
                    THEN [w EXCEPT !.videoState =
                            [state |-> "DIALOGUE", dialogueIndex |-> @.dialogueIndex + 1,
                             specificVideoUrl |-> NoUrl]]
                    ELSE w
               [] line.type = "CUE" ->
                    advanceLineH(
                      CASE line.cue = "CUT_TO_LIVE_CAMERA" -> [w EXCEPT !.viewMode = "LIVE_VIDEO"]
                        [] line.cue = "CUT_TO_TEXT" -> [w EXCEPT !.viewMode = "TEXT"]
                        [] line.cue = "CUT_TO_PRERECORDED" -> [w EXCEPT !.viewMode = "PRERECORDED"]
                        [] OTHER -> w)
               [] OTHER -> advanceLineH(w)
       IN [w1 EXCEPT !.hasCleanup = TRUE]

\* the cleanup of the line effect: if (isComputerSpeaking) cancelAudio()
LineEffectCleanupH(w) ==
  IF w.hasCleanup /\ isComputerSpeakingH(rendered) THEN cancelAudio(w) ELSE w

FrameH ==
  UNCHANGED << appStatus, script, scenes, isLiveFeedActive, isAutoAdvancing,
               shouldAdvance, typing, videoEl, advCount, ordinalUsed, jumpLog,
               completeLog, borderEffect, navLog, audioEls, recognition, endLog >>

\* the hook state after the handlers and effects of one step
CommitH(w) ==
  /\ currentLineIndex' = w.cursor
  /\ viewMode' = w.viewMode
  /\ videoState' = w.videoState
  /\ displayedAngieLine' = w.displayedAngieLine
  /\ isTyping' = w.isTyping
  /\ isPlaying' = w.isPlaying
  /\ audioRef' = w.audioRef
  /\ hasCleanup' = w.hasCleanup
  /\ audioLine' = w.audioLine
  /\ angieLineCounterRef' = w.angieLineCounterRef
  /\ wasComputerSpeakingRef' = w.wasComputerSpeakingRef
  /\ FrameH

\* one render pass: the cleanups of the effects whose dependencies changed,
\* then their bodies in the order of declaration
RenderH ==
  /\ ~mounted \/ CurrentH # rendered
  /\ angieLineCounterRef < MaxCount
  /\ videoState.dialogueIndex < MaxCount
  /\ LET S == CurrentH
         speakingChanged == ~mounted \/ isComputerSpeakingH(S) # isComputerSpeakingH(rendered)
         lineChanged == \/ speakingChanged
                        \/ S.cursor # rendered.cursor
                        \/ S.viewMode # rendered.viewMode
         w0 == IF mounted /\ lineChanged THEN LineEffectCleanupH(WorldH) ELSE WorldH
         w1 == IF speakingChanged THEN SpeakingEffectH(S, w0) ELSE w0
         w2 == IF lineChanged THEN LineEffectH(S, w1) ELSE w1
     IN CommitH(w2)
  /\ mounted' = TRUE
  /\ rendered' = CurrentH

\* onTypingComplete, called by the view when the typing animation is done
onTypingCompleteH ==
  /\ mounted /\ isTyping
  /\ CommitH([WorldH EXCEPT !.isTyping = FALSE])
  /\ UNCHANGED << mounted, rendered >>

\* onDialogueVideoEnd, called by the view when the dialogue clip has ended
onDialogueVideoEndH ==
  /\ mounted /\ videoState.state = "DIALOGUE"
  /\ CommitH(advanceLineH([WorldH EXCEPT !.videoState.state = "IDLE"]))
  /\ UNCHANGED << mounted, rendered >>

\* the host calls advanceLine
AdvanceCallH ==
  /\ mounted
  /\ CommitH(advanceLineH(WorldH))
  /\ UNCHANGED << mounted, rendered >>

\* the host calls jumpToScene with the index of a scene
JumpCallH ==
  /\ mounted
  /\ \E i \in 1..Len(scenes) : CommitH(jumpToSceneH(WorldH, scenes[i].index))
  /\ UNCHANGED << mounted, rendered >>

InitH ==
  /\ appStatus = "PERFORMING"
  /\ script \in ScriptsH
  /\ scenes = SceneMarkersOf(script)
  /\ currentLineIndex = 0
  /\ viewMode = "TEXT"
  /\ videoState = IdleVideoState
  /\ displayedAngieLine = NoText
  /\ isTyping = FALSE
  /\ isLiveFeedActive = FALSE
  /\ isAutoAdvancing = FALSE
  /\ shouldAdvance = FALSE
  /\ audioRef = NoAudio
  /\ isPlaying = FALSE
  /\ mounted = FALSE
  /\ rendered = CurrentH
  /\ hasCleanup = FALSE
  /\ typing = [inst |-> NoInst, active |-> FALSE]
  /\ videoEl = NoVideo
  /\ advCount = 0
  /\ ordinalUsed = NoLookup
  /\ audioLine = NoLine
  /\ jumpLog = [perf |-> FALSE, audio |-> "idle"]
  /\ angieLineCounterRef = 0
  /\ completeLog = NoCompleteLog
  /\ borderEffect = "NORMAL"
  /\ navLog = NoNav
  /\ audioEls = NoElements
  /\ wasComputerSpeakingRef = FALSE
  /\ recognition = NoRecognition
  /\ endLog = << >>

NextH ==
  \/ RenderH
  \/ onTypingCompleteH
  \/ onDialogueVideoEndH
  \/ AdvanceCallH
  \/ JumpCallH
  \/ AudioOnPlay
  \/ AudioOnEnded
  \/ AudioOnError

SpecH == InitH /\ [][NextH]_vars

\* ======================================================================
\* The speech recognition hook on its own (useSpeechRecognition with the
\* automatic restart): start and stop called by the host, the events of the
\* browser's recogniser, and the two kinds of timer the hook sets.
\* ======================================================================
SpeechErrors == {"no-speech", "network", "service-not-allowed", "audio-capture"}

\* recognition.start(): takes effect on an idle recogniser, throws
\* InvalidStateError (caught by start) on one that is already started
engineStart(r) == IF r.engine = "idle" THEN [r EXCEPT !.engine = "starting"] ELSE r

\* recognition.stop()
engineStop(r) ==
  CASE r.engine = "starting" -> [r EXCEPT !.engine = "stoppingEarly"]
    [] r.engine = "running" -> [r EXCEPT !.engine = "stopping"]
    [] OTHER -> r

\* start
start(r) == engineStart([r EXCEPT !.stoppedManually = FALSE])

\* stop
stop(r) ==
  engineStop([r EXCEPT !.stoppedManually = TRUE, !.retryTimeoutRef = FALSE])

\* recognition.onstart
onstart(r) ==
  [r EXCEPT !.isListening = TRUE, !.stoppedManually = FALSE,
            !.retryCountRef = 0, !.retryTimeoutRef = FALSE]

\* recognition.onend
onend(r) ==
  LET r1 == [r EXCEPT !.isListening = FALSE]
  IN IF ~r.stoppedManually /\ ~r.retryTimeoutRef
     THEN [r1 EXCEPT !.restartTimers = @ + 1]
     ELSE r1

\* recognition.onerror
onerror(r, error) ==
  IF error = "no-speech" THEN r
  ELSE LET r1 == [r EXCEPT !.isListening = FALSE]
       IN IF error \in {"network", "service-not-allowed"}
          THEN [r1 EXCEPT !.retryTimeoutRef = TRUE]
          ELSE r1

\* the callback of the 100 ms timer set by onend
restartCallback(r) == IF ~r.stoppedManually THEN start(r) ELSE r

\* the callback of the retry timer set by onerror
retryCallback(r) ==
  LET r1 == [r EXCEPT !.retryTimeoutRef = FALSE]
  IN IF ~r.stoppedManually
     THEN start([r1 EXCEPT !.retryCountRef = @ + 1])
     ELSE r1

SpeechFrame ==
  UNCHANGED << appStatus, script, scenes, currentLineIndex, viewMode, videoState,
               displayedAngieLine, isTyping, isLiveFeedActive, isAutoAdvancing,
               shouldAdvance, audioRef, isPlaying, mounted, rendered, hasCleanup,
               typing, videoEl, advCount, ordinalUsed, audioLine, jumpLog,
               angieLineCounterRef, completeLog, borderEffect, navLog, audioEls,
               wasComputerSpeakingRef, endLog >>

\* the host calls start()
StartCall ==
  /\ recognition' = [start(recognition) EXCEPT !.userCall = "start"]
  /\ SpeechFrame

\* the host calls stop()
StopCall ==
  /\ recognition' = [stop(recognition) EXCEPT !.userCall = "stop"]
  /\ SpeechFrame

\* the start event is delivered, also after a stop() that came before it
RecognitionStarted ==
  /\ recognition.engine \in {"starting", "stoppingEarly"}
  /\ recognition' =
       [onstart(recognition) EXCEPT !.engine =
           IF recognition.engine = "starting" THEN "running" ELSE "stopping"]
  /\ SpeechFrame

\* the end event is delivered: after stop(), after an error, or when the
\* recogniser gives up on its own
RecognitionEnded ==
  /\ recognition.engine \in {"running", "stopping", "stoppingEarly", "failing"}
  /\ recognition.restartTimers < MaxTimers
  /\ recognition' = [onend(recognition) EXCEPT !.engine = "idle"]
  /\ SpeechFrame

\* an error event is delivered; the end event follows it
RecognitionError ==
  /\ recognition.engine \in {"starting", "running"}
  /\ \E error \in SpeechErrors :
        recognition' = [onerror(recognition, error) EXCEPT !.engine = "failing"]
  /\ SpeechFrame

\* a 100 ms timer of onend fires
RestartTimerFires ==
  /\ recognition.restartTimers > 0
  /\ recognition' =
       restartCallback([recognition EXCEPT !.restartTimers = @ - 1])
  /\ SpeechFrame

\* the retry timer of onerror fires
RetryTimerFires ==
  /\ recognition.retryTimeoutRef
  /\ recognition.retryCountRef < MaxRetry
  /\ recognition' = retryCallback(recognition)
  /\ SpeechFrame

\* the hook after its mount effect: the recogniser built and idle
InitSpeech ==
  /\ appStatus = "PERFORMING"
  /\ script = << >>
  /\ scenes = << >>
  /\ currentLineIndex = 0
  /\ viewMode = "TEXT"
  /\ videoState = IdleVideoState
  /\ displayedAngieLine = NoLine
  /\ isTyping = FALSE
  /\ isLiveFeedActive = FALSE
  /\ isAutoAdvancing = FALSE
  /\ shouldAdvance = FALSE
  /\ audioRef = NoAudio
  /\ isPlaying = FALSE
  /\ mounted = TRUE
  /\ rendered = InitialHookState
  /\ hasCleanup = FALSE
  /\ typing = [inst |-> NoInst, active |-> FALSE]
  /\ videoEl = NoVideo
  /\ advCount = 0
  /\ ordinalUsed = NoLookup
  /\ audioLine = NoLine
  /\ jumpLog = [perf |-> FALSE, audio |-> "idle"]
  /\ angieLineCounterRef = 0
  /\ completeLog = NoCompleteLog
  /\ borderEffect = "NORMAL"
  /\ navLog = NoNav
  /\ audioEls = NoElements
  /\ wasComputerSpeakingRef = FALSE
  /\ recognition = NoRecognition
  /\ endLog = << >>

NextSpeech ==
  \/ StartCall
  \/ StopCall
  \/ RecognitionStarted
  \/ RecognitionEnded
  \/ RecognitionError
  \/ RestartTimerFires
  \/ RetryTimerFires

SpecSpeech == InitSpeech /\ [][NextSpeech]_vars





\* ------------------------------------------------------------- properties
\* the reaction to the line under the cursor has run and nothing is pending
Settled == InputReady

\* the start of the scene containing position p, read off the script itself
SceneStartOf(s, p) ==
  LET ms == {i \in 0..p : HasLine(s, i) /\ LineAt(s, i).type = "SCENE_MARKER"}
  IN IF ms = {} THEN 0 ELSE CHOOSE m \in ms : \A n \in ms : n <= m

\* zero-based count of the countable computer lines from the scene start to p
ScanOrdinal(s, p) ==
  Cardinality({i \in SceneStartOf(s, p)..p : HasLine(s, i) /\ IsCountable(LineAt(s, i))}) - 1

\* C1: the ordinal used to look up the audio or video of a computer line is
\* the number of countable computer lines from the start of its scene up to
\* it, however the cursor got there (advance, regress or scene jump).
C1_JumpConsistentOrdinal ==
  ordinalUsed.line # NoLine =>
     ordinalUsed.ordinal = ScanOrdinal(script, ordinalUsed.line)

\* a scene was selected during the performance; the lookup made since then
\* is for the first countable line of a later scene, with a countable line
\* in the scene before it
C1_Witness ==
  /\ jumpLog.perf
  /\ ordinalUsed.line # NoLine
  /\ SceneStartOf(script, ordinalUsed.line) > 0
  /\ ordinalUsed.ordinal = 0
  /\ \E i \in 0..SceneStartOf(script, ordinalUsed.line) :
        HasLine(script, i) /\ IsCountable(LineAt(script, i))

InstantCues == {"CUT_TO_TEXT", "CUT_TO_PRERECORDED", "CUT_TO_LIVE_CAMERA", "UNKNOWN"}
IsInstantCue(line) == line.type = "CUE" /\ line.cue \in InstantCues

\* C2: the reaction to an instant cue advances the cursor exactly once: never
\* twice, also when the cue changes the view mode and the reaction runs
\* again, and once the reaction has settled, not zero times.
C2_OneAdvancePerInstantCue ==
  (mounted /\ HasLine(script, rendered.cursor)
     /\ IsInstantCue(LineAt(script, rendered.cursor))) =>
       /\ advCount <= 1
       /\ (Settled => advCount = 1)

\* the cue changed the view mode, its reaction ran again under the new mode,
\* and one advance was made
C2_Witness ==
  /\ mounted /\ HasLine(script, rendered.cursor)
  /\ LineAt(script, rendered.cursor).type = "CUE"
  /\ LineAt(script, rendered.cursor).cue = "CUT_TO_PRERECORDED"
  /\ rendered.viewMode = "PRERECORDED"
  /\ rendered.shouldAdvance
  /\ advCount = 1
  /\ currentLineIndex # rendered.cursor

AudioLive == audioRef.st \in {"loading", "playing"}

\* C10: after a scene is selected while audio is playing, the audio player
\* gets cancel() before any play(), and once the reaction to the cursor has
\* run, the only audio that can be live is the one that reaction started.
C10_JumpCancelsAudioFirst ==
  /\ jumpLog.audio # "played_first"
  /\ (mounted /\ rendered.cursor = currentLineIndex /\ AudioLive)
        => audioLine = currentLineIndex

\* a scene was selected over live audio, and the player was cancelled
C10_Witness ==
  /\ jumpLog.audio = "cancelled"
  /\ ~AudioLive
  /\ audioLine # NoLine

IsSpokenLine(line) ==
  line.type = "DIALOGUE" /\ IsComputerLine(line) /\ ~IsTrivialText(line.text)

\* C4: a computer line with both typed text and audio is complete only when
\* the typing has finished and the audio has ended: while the typing
\* animation still runs or the audio still plays, the computer is reported
\* as speaking and no advance is requested.
C4_JointCompletion ==
  LET c == rendered.cursor
  IN (/\ Settled
      /\ HasLine(script, c) /\ IsSpokenLine(LineAt(script, c))
      /\ rendered.viewMode = "TEXT"
      /\ rendered.displayedAngieLine = c
      /\ typing.inst = << "TEXT", c >>
      /\ audioLine = c /\ audioRef.st \in {"playing", "ended"}
      /\ (typing.active \/ audioRef.st = "playing"))
     => (isComputerSpeaking(rendered) /\ ~rendered.shouldAdvance)

\* an event that will still be delivered and ends a wait
PendingSignal ==
  \/ typing.active
  \/ AudioLive
  \/ /\ videoEl.present /\ videoEl.src # NoUrl /\ ~videoEl.ended /\ ~videoEl.loop
     /\ rendered.videoState.state = "DIALOGUE"

\* keys and container clicks change nothing; there is no video surface to click
UserInputIgnored ==
  /\ \/ rendered.isAutoAdvancing
     \/ ~isSkippableVideo(rendered) /\ isComputerSpeaking(rendered)
  /\ rendered.viewMode # "PRERECORDED"

C7_TypingAloneAdvances ==
  LET c == rendered.cursor
  IN (/\ Settled
      /\ HasLine(script, c) /\ IsSpokenLine(LineAt(script, c))
      /\ rendered.viewMode = "TEXT"
      /\ ordinalUsed.line = c /\ ~HasAudio(ordinalUsed.ordinal)
      /\ typing.inst = << "TEXT", c >> /\ ~typing.active)
     => advCount = 1

RenderBaseline ==
  /\ viewMode = "TEXT"
  /\ videoState = IdleVideoState
  /\ displayedAngieLine = NoLine
  /\ ~isLiveFeedActive
  /\ ~isAutoAdvancing

\* C9: immediately after a jump to a scene the render state is the baseline:
\* text view, idle video, no computer line, live feed off, auto-advance off.
C9_JumpResetsRenderState == [][handleSelectScene => RenderBaseline']_vars

\* C3: each computer line calls the advance callback at most once over all of
\* its completion paths (typing finished, audio ended, video ended, no-asset
\* fallback, voicemail finished): typing finishing and audio ending for the
\* same line give one advance, not two.
C3_SingleAdvancePerLine == completeLog.count <= 1

\* C5: a completion signal started for the line at position N and delivered
\* once the cursor has left N causes no advance.
C5_NoStaleCompletion == ~completeLog.stale

\* C8: whenever the manual-navigation manager has settled on a trivial
\* computer line (empty or a short parenthetical) while performing, the
\* displayed line is null, the line started no audio, and exactly one
\* advance was requested for it.
C8_TrivialLineAutoAdvances ==
  ( /\ appStatus = "PERFORMING"
    /\ InputReadyM
    /\ HasLine(script, currentLineIndex)
    /\ IsComputerLine(LineAt(script, currentLineIndex))
    /\ IsTrivialText(LineAt(script, currentLineIndex).text) )
  => ( /\ displayedAngieLine = NoText
       /\ audioLine # currentLineIndex
       /\ advCount = 1 )

\* C11: right after a new script is loaded no audio is in flight and the
\* render sub-state is the baseline (text view, idle video, no computer
\* line, live feed off, auto-skip off), whatever the state before the load.
C11_NewScriptResets == [][handleNewScript => (RenderBaseline' /\ ~AudioLive')]_vars

\* C12: the cursor is a position of the script: 0 <= cursor < Len(script)
\* for a script with lines, and 0 for the empty script.
C12_CursorInRange ==
  IF Len(script) = 0 THEN currentLineIndex = 0
  ELSE currentLineIndex >= 0 /\ currentLineIndex < Len(script)

\* positions after p that hold a Dialogue or Cue line
ActionableAhead(s, p) == {i \in (p + 1)..(Len(s) - 1) : IsActionable(LineAt(s, i))}

\* positions before p that hold a Dialogue or Cue line
ActionableBefore(s, p) == {i \in 0..(p - 1) : HasLine(s, i) /\ IsActionable(LineAt(s, i))}

\* C13: advance() called where no Dialogue or Cue line follows the cursor
\* leaves the cursor where it was, however often it is called.
C13_AdvanceAtEndNoOp ==
  (navLog.op = "advance" /\ ActionableAhead(script, navLog.from) = {})
     => currentLineIndex = navLog.from

\* advance() was called repeatedly on the last actionable line, with a
\* scene marker still following it
C13_Witness ==
  /\ navLog.op = "advance" /\ navLog.calls = MaxCalls
  /\ ActionableAhead(script, navLog.from) = {}
  /\ navLog.from + 1 < Len(script)
  /\ IsActionable(LineAt(script, navLog.from))
  /\ currentLineIndex = navLog.from

\* C14: regress() called where no Dialogue or Cue line precedes the cursor
\* leaves the cursor where it was, however often it is called, and the
\* cursor is never negative after regress().
C14_RegressAtStartNoOp ==
  navLog.op = "regress" =>
     /\ currentLineIndex >= 0
     /\ ActionableBefore(script, navLog.from) = {} => currentLineIndex = navLog.from

\* regress() was called repeatedly on the first actionable line, with a
\* scene marker before it
C14_Witness ==
  /\ navLog.op = "regress" /\ navLog.calls = MaxCalls
  /\ ActionableBefore(script, navLog.from) = {}
  /\ navLog.from > 0
  /\ IsActionable(LineAt(script, navLog.from))
  /\ currentLineIndex = navLog.from

\* C15: with a Dialogue line (of any character) or a Cue ahead, advance()
\* puts the cursor on the nearest such position after the one it was
\* called from.
C15_AdvanceTarget ==
  (navLog.op \in {"advance", "advanceM"} /\ ActionableAhead(script, navLog.from) # {})
     => /\ currentLineIndex \in ActionableAhead(script, navLog.from)
        /\ \A i \in ActionableAhead(script, navLog.from) : currentLineIndex <= i

\* the line effect has run for the rendered cursor, which holds a dialogue
\* line of a character other than the computer
OnHumanLine ==
  /\ appStatus = "PERFORMING" /\ mounted
  /\ rendered.script = script
  /\ HasLine(script, rendered.cursor)
  /\ LineAt(script, rendered.cursor).type = "DIALOGUE"
  /\ ~IsComputerLine(LineAt(script, rendered.cursor))

\* the manager waits: no audio is live, no computer line is displayed, and
\* no advance has been requested or made since the cursor arrived
HumanLineWaits ==
  /\ ~AudioLive
  /\ displayedAngieLine = NoLine
  /\ ~shouldAdvance
  /\ advCount = 0

\* C16: once the manager has reacted to a dialogue line of another character,
\* no audio plays, no computer line is displayed, and the manager neither
\* requests nor makes an advance: the cursor leaves the line only by a
\* handler of user input.
C16_HumanLineWaits == OnHumanLine => HumanLineWaits

\* C16, outside the live-feed auto-skip: the same, for a reaction that ran
\* with isAutoAdvancing false.
C16_HumanLineWaitsOutsideAutoSkip ==
  (OnHumanLine /\ ~rendered.isAutoAdvancing) => HumanLineWaits

\* the cursor came from a computer line whose audio was still playing onto
\* a line of another character; the view has settled there
C16_Witness ==
  /\ OnHumanLine /\ ~rendered.isAutoAdvancing /\ Settled
  /\ rendered.cursor > 0
  /\ audioLine = rendered.cursor - 1
  /\ audioRef = NoAudio
  /\ HumanLineWaits


\* the manager has reacted, outside the live-feed auto-skip, to a
\* play-specific-video cue whose file name matches no loaded video
OnMissingSpecificVideo ==
  /\ appStatus = "PERFORMING" /\ mounted
  /\ rendered.script = script
  /\ ~rendered.isAutoAdvancing
  /\ HasLine(script, rendered.cursor)
  /\ LineAt(script, rendered.cursor).type = "CUE"
  /\ LineAt(script, rendered.cursor).cue = "PLAY_SPECIFIC_VIDEO"
  /\ findSpecificVideo(LineAt(script, rendered.cursor).videoFilename) = NoUrl

\* a key (ArrowRight, Space) or a click is handled as a skip of the missing video
SkipInput ==
  /\ handleKeyDown \/ handleContainerClick \/ handleVideoClick
  /\ rendered.videoState.state = "MISSING"
  /\ videoState'.state = "IDLE"

\* a render in which the line effect ran for a cursor new to it
ArrivalRender == Render /\ (~mounted \/ rendered'.cursor # rendered.cursor)

\* C17: on a play-specific-video cue whose file matches no loaded video the
\* manager shows MISSING in the prerecorded view and requests no advance;
\* a skip input (key or click) then moves the cursor to the next
\* actionable line.
C17_MissingSpecificVideoSkip ==
  /\ [][(ArrivalRender /\ OnMissingSpecificVideo')
          => (viewMode' = "PRERECORDED" /\ videoState'.state = "MISSING")]_vars
  /\ [](OnMissingSpecificVideo => (~shouldAdvance /\ advCount = 0))
  /\ [][(OnMissingSpecificVideo /\ SkipInput)
          => currentLineIndex' = advanceLine(script, rendered.cursor)]_vars

\* the manual-navigation manager has settled, in the prerecorded view, on a
\* spoken computer line with no video at videos[angieDialogueIndex + 1]
OnUnfilmedLineM ==
  /\ appStatus = "PERFORMING" /\ InputReadyM
  /\ HasLine(script, currentLineIndex)
  /\ IsSpokenLine(LineAt(script, currentLineIndex))
  /\ viewMode = "PRERECORDED"
  /\ ~HasLine(videosM, angieDialogueIndexM(script, currentLineIndex) + 1)

\* C18: while the cursor is on a spoken computer line in the prerecorded
\* view and no dialogue video exists at the line's ordinal, the video
\* sub-state is MISSING, never IDLE.
C18_MissingDialogueVideo ==
  OnUnfilmedLineM => (videoState.state = "MISSING" /\ videoState.state # "IDLE")


IsVoicemailCue(line) == line.type = "CUE" /\ line.cue = "PLAY_VOICEMAIL"

\* the manual-navigation manager has reacted to a play-voicemail cue whose
\* audioIndex addresses a loaded audio file, and the cursor is still on it
OnVoicemailM ==
  /\ appStatus = "PERFORMING"
  /\ rendered.status = "PERFORMING"
  /\ rendered.cursor = currentLineIndex
  /\ HasLine(script, currentLineIndex)
  /\ IsVoicemailCue(LineAt(script, currentLineIndex))
  /\ LineAt(script, currentLineIndex).audioIndex # Undefined
  /\ HasAudio(LineAt(script, currentLineIndex).audioIndex)

\* C19: on a play-voicemail cue whose audio exists, the reaction starts the
\* playback of that audio; no advance is requested or made while it is
\* loading or playing; once the player has reported the end, one advance
\* has been requested.
C19_VoicemailPlaysThenAdvances ==
  OnVoicemailM =>
     /\ audioLine = currentLineIndex
     /\ audioRef.st # "none"
     /\ audioRef.idx = LineAt(script, currentLineIndex).audioIndex
     /\ AudioLive => (~shouldAdvance /\ advCount = 0)
     /\ audioRef.st = "ended" => (shouldAdvance \/ advCount = 1)


\* the manual-navigation manager has settled on a play-voicemail cue whose
\* audioIndex is absent or addresses no loaded audio file
OnMissingVoicemailM ==
  /\ appStatus = "PERFORMING" /\ InputReadyM
  /\ HasLine(script, currentLineIndex)
  /\ IsVoicemailCue(LineAt(script, currentLineIndex))
  /\ \/ LineAt(script, currentLineIndex).audioIndex = Undefined
     \/ ~HasAudio(LineAt(script, currentLineIndex).audioIndex)

\* C20: on a play-voicemail cue with no audio to play, no playback is
\* started and the advance is made all the same: the manager never rests on
\* such a cue without having advanced once.
C20_MissingVoicemailAdvances ==
  OnMissingVoicemailM => (~AudioLive /\ advCount = 1)


IsEndLiveFeed(line) == line.type = "CUE" /\ line.cue = "END_LIVE_FEED"

\* the last render ran the line effect in live-feed skip mode on a line
\* that is not the end-live-feed cue
SkippingLine ==
  /\ appStatus = "PERFORMING" /\ mounted
  /\ rendered.script = script
  /\ rendered.isAutoAdvancing
  /\ HasLine(script, rendered.cursor)
  /\ ~IsEndLiveFeed(LineAt(script, rendered.cursor))

\* C21: from the cut-to-live-camera cue to the first end-live-feed cue the
\* view is LIVE_VIDEO with the live feed on, and every line reacted to in
\* between is advanced past exactly once, with no computer line displayed,
\* no typing, no audio live, and the video sub-state left as it was.
C21_LiveFeedSkip ==
  /\ [](SkippingLine =>
          /\ displayedAngieLine = NoLine
          /\ ~isTyping /\ ~typing.active
          /\ ~AudioLive
          /\ advCount <= 1
          /\ Settled => advCount = 1)
  /\ [](isAutoAdvancing => (viewMode = "LIVE_VIDEO" /\ isLiveFeedActive))
  /\ [][(Render /\ rendered'.isAutoAdvancing /\ isAutoAdvancing')
          => videoState' = videoState]_vars

\* a spoken computer line, with audio on file, was skipped during the live
\* feed: one advance was made and nothing of the line was shown or played
C21_Witness ==
  /\ SkippingLine
  /\ IsSpokenLine(LineAt(script, rendered.cursor))
  /\ HasAudio(angieDialogueIndex(script, scenes, rendered.cursor))
  /\ advCount = 1
  /\ displayedAngieLine = NoLine /\ ~AudioLive


\* the scene-aware manager has reacted to an end-live-feed cue
OnEndLiveFeed ==
  /\ appStatus = "PERFORMING" /\ mounted
  /\ rendered.script = script
  /\ HasLine(script, rendered.cursor)
  /\ IsEndLiveFeed(LineAt(script, rendered.cursor))

\* C22: once the manager has reacted to an end-live-feed cue the live feed
\* is off, the view is TEXT, the skip mode is off, and at most one advance
\* has been made for the cue.
C22_EndLiveFeed ==
  OnEndLiveFeed =>
     /\ ~isLiveFeedActive
     /\ viewMode = "TEXT"
     /\ ~isAutoAdvancing
     /\ advCount <= 1


IsCutToPrerecorded(line) == line.type = "CUE" /\ line.cue = "CUT_TO_PRERECORDED"

\* the scene-aware manager has reacted, outside the live-feed skip, to a
\* cut-to-prerecorded cue
OnCutToPrerecorded ==
  /\ appStatus = "PERFORMING" /\ mounted
  /\ rendered.script = script
  /\ ~rendered.isAutoAdvancing
  /\ HasLine(script, rendered.cursor)
  /\ IsCutToPrerecorded(LineAt(script, rendered.cursor))

\* C23: once the manager has reacted to a cut-to-prerecorded cue the view is
\* PRERECORDED, the video sub-state is IDLE whatever it was before, and an
\* advance has been requested or made.
C23_CutToPrerecordedResets ==
  OnCutToPrerecorded =>
     /\ viewMode = "PRERECORDED"
     /\ videoState.state = "IDLE"
     /\ shouldAdvance \/ advCount = 1


ScreenCues == {"RED_SCREEN", "FLASHING_SCREEN", "NORMAL_SCREEN", "BLACKOUT"}
IsScreenCue(line) == line.type = "CUE" /\ line.cue \in ScreenCues

\* the border a screen-effect cue asks for; a blackout leaves it alone
BorderOf(cue, before) ==
  CASE cue = "RED_SCREEN" -> "RED"
    [] cue = "FLASHING_SCREEN" -> "FLASHING"
    [] cue = "NORMAL_SCREEN" -> "NORMAL"
    [] OTHER -> before

\* the manual-navigation manager has reacted to a screen-effect cue and the
\* cursor is still on it
OnScreenCueM ==
  /\ appStatus = "PERFORMING" /\ rendered.status = "PERFORMING"
  /\ rendered.cursor = currentLineIndex
  /\ HasLine(script, currentLineIndex)
  /\ IsScreenCue(LineAt(script, currentLineIndex))

\* C24: the reaction to a screen-effect cue sets the border the cue names
\* (a blackout clears the displayed line instead), leaves the view mode and
\* the video sub-state as they were, and requests an advance.
C24_ScreenEffectCues ==
  /\ [][(RenderM /\ LineEffectDepsChangedM(CurrentM) /\ OnScreenCueM')
          => /\ borderEffect' = BorderOf(LineAt(script, currentLineIndex').cue, borderEffect)
             /\ LineAt(script, currentLineIndex').cue = "BLACKOUT"
                   => displayedAngieLine' = NoText
             /\ viewMode' = viewMode
             /\ videoState' = videoState]_vars
  /\ [](OnScreenCueM => (shouldAdvance \/ advCount = 1))


\* the manual-navigation manager has settled with the cursor on a scene marker
OnSceneMarkerM ==
  /\ appStatus = "PERFORMING" /\ InputReadyM
  /\ HasLine(script, currentLineIndex)
  /\ LineAt(script, currentLineIndex).type = "SCENE_MARKER"

\* C25: a scene marker is passed without input: the manager rests on one
\* only with the computer line cleared, one advance made, and no Dialogue
\* or Cue line after the marker to go to.
C25_SceneMarkerPassed ==
  OnSceneMarkerM =>
     /\ displayedAngieLine = NoText
     /\ advCount = 1
     /\ ActionableAhead(script, currentLineIndex) = {}


\* the non-trivial computer lines of the scene of position p strictly before p
SpokenBefore(s, p) ==
  {i \in SceneStartOf(s, p)..(p - 1) : HasLine(s, i) /\ IsSpokenLine(LineAt(s, i))}

\* the memo of the scene-aware manager was computed on a non-trivial computer line
OrdOnSpoken ==
  /\ navLog.op = "ordinal"
  /\ HasLine(script, ordinalUsed.line)
  /\ IsSpokenLine(LineAt(script, ordinalUsed.line))

\* C26: the ordinal at a non-trivial computer line is the number of
\* non-trivial computer lines of the same scene strictly before it: empty
\* lines and short parentheticals are not counted.
C26_ParentheticalsNotCounted ==
  OrdOnSpoken =>
     ordinalUsed.ordinal = Cardinality(SpokenBefore(script, ordinalUsed.line))

\* the first computer line of the scene is a short parenthetical, the line
\* the ordinal was computed on is the second, and the ordinal is 0
C26_Witness ==
  /\ OrdOnSpoken
  /\ ordinalUsed.ordinal = 0
  /\ \E i \in SceneStartOf(script, ordinalUsed.line)..(ordinalUsed.line - 1) :
        /\ IsComputerLine(LineAt(script, i))
        /\ isShortParenthetical(Trim(LineAt(script, i).text))


\* the memo of either manager was computed on a non-trivial computer line
OrdOnSpokenAny ==
  /\ navLog.op \in {"ordinal", "ordinalM"}
  /\ HasLine(script, ordinalUsed.line)
  /\ IsSpokenLine(LineAt(script, ordinalUsed.line))

\* C27: the ordinal counts from the last scene marker at or before the
\* cursor, or from position 0 when none precedes it: computer lines of
\* earlier scenes do not contribute.
C27_SceneRelativeCounting ==
  OrdOnSpokenAny =>
     ordinalUsed.ordinal =
        Cardinality({i \in SceneStartOf(script, ordinalUsed.line)..ordinalUsed.line :
                        IsSpokenLine(LineAt(script, i))}) - 1


\* the memo of either manager was computed on a line that is not a
\* non-trivial computer line: a cue, a scene marker, a human line, or a
\* computer line whose text is empty or a short parenthetical
OrdOffSpoken ==
  /\ navLog.op \in {"ordinal", "ordinalM"}
  /\ HasLine(script, ordinalUsed.line)
  /\ ~IsSpokenLine(LineAt(script, ordinalUsed.line))

\* C28: off a countable computer dialogue line the ordinal is -1.
C28_OrdinalOffCountableLines ==
  OrdOffSpoken => ordinalUsed.ordinal = -1


\* the Audio elements that are loading or playing
LiveElements == {i \in 1..Len(audioEls.all) : audioEls.all[i].st \in {"loading", "playing"}}

\* C29: whatever play and cancel calls and playback events have happened, at
\* most one Audio element is live, and it is the one the ref holds; a call
\* of play leaves the element the ref held stopped and its source released.
C29_AtMostOneAudioInstance ==
  /\ [](Cardinality(LiveElements) <= 1 /\ LiveElements \subseteq {audioEls.current})
  /\ [][(PlayCall /\ audioEls.current # 0 /\ Len(audioEls'.all) > Len(audioEls.all))
          => /\ audioEls'.all[audioEls.current].st \notin {"loading", "playing"}
             /\ audioEls'.all[audioEls.current].src = ""
             /\ LiveElements' = {audioEls'.current}]_vars

\* a second play was called over a live element, and the new element plays
C29_Witness ==
  /\ Len(audioEls.all) >= 2
  /\ audioEls.all[1].st = "paused" /\ audioEls.all[1].src = ""
  /\ audioEls.current = 2 /\ audioEls.all[2].st = "playing"


\* the plays that passed an onEnd callback and were neither cancelled nor
\* replaced by a later play
UncancelledPlays ==
  {i \in 1..Len(audioEls.all) : audioEls.all[i].onEnd /\ ~audioEls.all[i].stopped}

\* C30: a play that is not cancelled invokes onEnd exactly once: never more
\* than once, and once when playback has completed or has aborted with a
\* decode or play error.
C30_OnEndExactlyOnce ==
  \A i \in UncancelledPlays :
     /\ audioEls.all[i].ends <= 1
     /\ audioEls.all[i].st \in {"ended", "failed"} => audioEls.all[i].ends = 1


\* C31: the callbacks and reactions of the state machine never write the
\* cursor: onTypingComplete and onDialogueVideoEnd leave it where it is, and
\* a render pass moves it only to serve an advance request (shouldAdvance)
\* handed to the navigation controller.
C31_CursorOwnership ==
  [][/\ (onTypingCompleteH \/ onDialogueVideoEndH) => currentLineIndex' = currentLineIndex
     /\ RenderH => (currentLineIndex' # currentLineIndex => shouldAdvance)]_vars


\* the computer lines before position p that the line effect counts when
\* it runs once on every line from the start of the script
CountedBefore(s, p) ==
  Cardinality({i \in 0..(p - 1) : HasLine(s, i) /\ IsSpokenLine(LineAt(s, i))})

\* C32: in the counter-based manager jumpToScene(i) leaves the running
\* counter at the value an uninterrupted run from the start of the script
\* has on reaching i, so that the next computer line gets the same audio
\* index either way, also with short-parenthetical computer lines before i.
C32_CounterSurvivesSeek ==
  [][handleJumpToScene =>
       angieLineCounterRef' = CountedBefore(script, currentLineIndex')]_vars

\* the status moves from `from` to `to` in this step
StatusStep(from, to) == appStatus = from /\ appStatus' = to

\* the status enters `to` in this step
StatusEnters(to) == appStatus # to /\ appStatus' = to

\* C33: the status reaches PERFORMING only through TITLE_SCREEN,
\* TRANSITION_SCREEN and PROCESSING_SCREEN in that order, each step taken by
\* a key press with a non-empty script; no other event makes it PERFORMING.
C33_StartupStatusOrder ==
  [][/\ StatusEnters("TRANSITION_SCREEN") => StatusStep("TITLE_SCREEN", "TRANSITION_SCREEN")
     /\ StatusEnters("PROCESSING_SCREEN") => StatusStep("TRANSITION_SCREEN", "PROCESSING_SCREEN")
     /\ StatusEnters("PERFORMING") => StatusStep("PROCESSING_SCREEN", "PERFORMING")
     /\ (\E s \in {"TRANSITION_SCREEN", "PROCESSING_SCREEN", "PERFORMING"} : StatusEnters(s))
           => (handleKeyDownM /\ Len(script) # 0)]_vars


\* a key press or a click reaches the PerformanceView
UserInput == handleKeyDown \/ handleContainerClick \/ handleVideoClick

\* C34: while isComputerSpeaking is true no key press and no click moves the
\* cursor, forward or back; the only input that has an effect is the skip
\* of a SPECIFIC or MISSING video.
C34_InputGatedWhileSpeaking ==
  [][(UserInput /\ isComputerSpeaking(Current) /\ ~isSkippableVideo(Current)) =>
        /\ currentLineIndex' = currentLineIndex
        /\ videoState' = videoState]_vars


\* C35: in the scene-aware manager the live feed is active exactly when the
\* auto-skip mode is on, and an active live feed is shown in LIVE_VIDEO mode.
C35_LiveFeedFlagsAgree ==
  /\ isLiveFeedActive <=> isAutoAdvancing
  /\ isLiveFeedActive => viewMode = "LIVE_VIDEO"

\* the live feed was switched on by a cut to the live camera and the next
\* line is being skipped
C35_Witness ==
  /\ isLiveFeedActive /\ isAutoAdvancing /\ viewMode = "LIVE_VIDEO"
  /\ mounted /\ rendered.isLiveFeedActive
  /\ \E i \in 0..(currentLineIndex - 1) :
        /\ HasLine(script, i)
        /\ LineAt(script, i).type = "CUE" /\ LineAt(script, i).cue = "CUT_TO_LIVE_CAMERA"


\* renders are not postponed for ever: React commits every pending update
SpecFair == Spec /\ WF_vars(Render)

\* nothing is left to render and no advance request is outstanding
Quiescent ==
  /\ ~(appStatus = "PERFORMING" /\ (~mounted \/ Current # rendered))
  /\ ~shouldAdvance

\* C36: left to itself (no user input, no playback event, only renders) the
\* manager makes finitely many automatic advances, never moves the cursor
\* back while doing so, and comes to rest with the advance flag cleared,
\* also when the auto-skip runs to the last line with no END_LIVE_FEED.
C36_AutoAdvanceTerminates ==
  /\ [][Render => currentLineIndex' >= currentLineIndex]_vars
  /\ (<>[][Render]_vars) => <>[]Quiescent

\* the auto-skip has run into the last line, which is not END_LIVE_FEED: the
\* advance was requested and served once, and the manager is at rest
C36_Witness ==
  /\ Quiescent /\ appStatus = "PERFORMING" /\ isAutoAdvancing
  /\ currentLineIndex = Len(script) - 1 /\ rendered.cursor = currentLineIndex
  /\ ~IsEndLiveFeed(LineAt(script, currentLineIndex))
  /\ LineAt(script, currentLineIndex).cue # "CUT_TO_LIVE_CAMERA"
  /\ advCount = 1


\* both the 'ended' event and a skip key have called onSpecificVideoEnd for the clip
SpecificEndedTwice == endLog \in { << "ended", "key" >>, << "key", "ended" >> }

ActionableAt(p) == HasLine(script, p) /\ IsActionable(LineAt(script, p))

\* C38: from a position p that holds a Dialogue or Cue line and has another
\* one after it, advanceLine followed by regressLine returns the cursor to p;
\* and regressLine followed by advanceLine returns it to p when a Dialogue or
\* Cue line precedes p.
C38_AdvanceRegressRoundTrip ==
  [][/\ ( /\ NavRegress /\ navLog.op = "advance"
          /\ ActionableAt(navLog.from)
          /\ \E q \in (navLog.from + 1)..(Len(script) - 1) : ActionableAt(q) )
        => currentLineIndex' = navLog.from
     /\ ( /\ NavAdvance /\ navLog.op = "regress"
          /\ ActionableAt(navLog.from)
          /\ \E q \in 0..(navLog.from - 1) : ActionableAt(q) )
        => currentLineIndex' = navLog.from]_vars

\* regressLine has just brought the cursor back to p from the line advanceLine
\* reaches from p, over a scene marker standing between the two
C38_Witness ==
  /\ navLog.op = "regress" /\ ActionableAt(currentLineIndex)
  /\ navLog.from = advanceLine(script, currentLineIndex)
  /\ navLog.from > currentLineIndex + 1


\* C39: once the host has called stop(), and until it calls start() again,
\* the recogniser is not started: not by the 100 ms restart of onend, not by
\* a retry timer, not after a start event that arrives late.
C39_ManualStopIsFinal ==
  recognition.userCall = "stop" => recognition.engine \notin {"starting", "running"}


====
